---- MODULE Spec2Model ----
(***************************************************************************)
(* A model of rosetta's translation pipeline:                              *)
(*   - PandocParser::parse's segmentation loop   (src/parser/pandoc.rs)    *)
(*   - Cache::new / get / insert                 (src/cache.rs)            *)
(*   - LlmTranslationService::translate          (src/lib.rs)              *)
(*   - PandocGeneratorBuilder / PandocGenrator   (src/generator/pandoc.rs) *)
(*   - OpenAiGPT::translate / run_with_backoff   (src/llm/openai.rs)       *)
(*                                                                         *)
(* Text is a sequence of one-character strings.  All characters of the     *)
(* model are ASCII, so str::len (bytes) is the length of the sequence.     *)
(***************************************************************************)
EXTENDS Integers, Sequences, FiniteSets, TLC

VARIABLES
    parser,     \* the state of one PandocParser::parse call
    db_exists,  \* whether the sqlite file of the cache exists
    table,      \* the rows of the sqlite table "translated", in rowid order
    cache,      \* the open Cache (its two language fields), or NoCache
    first,      \* history: per (language pair, source text) the destination
                \* text of the earliest insert call that returned Ok
    last,       \* history: the last call on the cache and what it returned
    pipe,       \* the locals of one LlmTranslationService::translate call
    md_file,    \* the translated markdown file: whether it exists, and the
                \* number of Sections it holds
    trace,      \* history: what the current translate call has done so far
    rs,         \* the state of one OpenAiGPT::translate call
    gui,        \* the front-end: its fields, the status channel, its task
    req         \* the state of one run_openai_request call

cacheVars == <<db_exists, table, cache, first, last>>
pipeVars == <<pipe, md_file, trace>>
vars == <<parser, db_exists, table, cache, first, last, pipe, md_file, trace,
         rs, gui, req>>

-----------------------------------------------------------------------------
(* Option values, and the state of a component no call is modelled on.     *)

None == [some |-> FALSE]
Some(v) == [some |-> TRUE, value |-> v]

NoCache == [open |-> FALSE]

\* no store yet, no Cache open
CacheIdle ==
    /\ db_exists = FALSE
    /\ table = <<>>
    /\ cache = NoCache
    /\ first = <<>>
    /\ last = [op |-> "none"]

NoFile == [exists |-> FALSE, sections |-> 0]

\* no translate call is running; prev: whether the last one returned an
\* error after it had inserted into the cache ("err_after_insert")
NoRun == [pc |-> "idle", prev |-> "other"]

\* no translate call yet, no output written
PipeIdle ==
    /\ pipe = NoRun
    /\ md_file = NoFile
    /\ trace = <<>>

\* no OpenAiGPT::translate call is modelled
SessionIdle == rs = [pc |-> "idle"]

\* no front-end is modelled
GuiIdle == gui = [pc |-> "none"]

\* no run_openai_request call is modelled
RequestIdle == req = [pc |-> "none"]

-----------------------------------------------------------------------------
(* Bounds of the model.                                                    *)

\* longest markdown text handed to parse
MaxTextLen == 6
\* largest max_section_len handed to parse
MaxSectionLen == 3
\* largest number of Sections of a parsed input
MaxSections == 2
\* the time the backoff allows (max_elapsed_time), in ticks
MaxElapsed == 12
\* the longest backoff interval (max_interval), in ticks
MaxInterval == 2
\* most polls of one run that find it Queued or InProgress
MaxPolls == 2

-----------------------------------------------------------------------------
(* Characters.                                                             *)

\* [.!?] of the sentence break regex
Punctuation == {".", "!", "?"}
\* \p{White_Space}: what the regex and str::trim take for whitespace
WhiteSpace == {" ", "\n"}
\* \p{Uppercase}
Uppercase == {"B"}
\* the characters of the model's texts: one punctuation mark, two kinds of
\* whitespace, one uppercase letter and one character that is none of these
Chars == {".", " ", "\n", "B", "a"}

Texts == UNION {[1..n -> Chars] : n \in 0..MaxTextLen}

-----------------------------------------------------------------------------
(* String helpers of the Rust standard library, as parse uses them.        *)

\* str::trim_start
RECURSIVE TrimStart(_)
TrimStart(s) ==
    IF s # <<>> /\ Head(s) \in WhiteSpace THEN TrimStart(Tail(s)) ELSE s

\* str::trim_end
RECURSIVE TrimEnd(_)
TrimEnd(s) ==
    IF s # <<>> /\ s[Len(s)] \in WhiteSpace
    THEN TrimEnd(SubSeq(s, 1, Len(s) - 1))
    ELSE s

\* str::trim
Trim(s) == TrimEnd(TrimStart(s))

\* markdown.split("\n\n"): the pieces between non-overlapping occurrences of
\* the separator, found left to right; always at least one piece
RECURSIVE SplitParagraphs(_, _)
SplitParagraphs(s, acc) ==
    IF s = <<>> THEN <<acc>>
    ELSE IF Len(s) >= 2 /\ s[1] = "\n" /\ s[2] = "\n"
         THEN <<acc>> \o SplitParagraphs(SubSeq(s, 3, Len(s)), <<>>)
         ELSE SplitParagraphs(Tail(s), Append(acc, Head(s)))

\* whether [.!?]\p{White_Space}+\p{Uppercase} matches s at the 0-based
\* offset p (the offset of the punctuation mark)
MatchesAt(s, p) ==
    /\ p + 1 <= Len(s)
    /\ s[p + 1] \in Punctuation
    /\ \E q \in (p + 3)..Len(s) :
          /\ s[q] \in Uppercase
          /\ \A k \in (p + 2)..(q - 1) : s[k] \in WhiteSpace

\* find_at that looks for the leftmost match from the start of the text
FindAtAnywhere(s, start) ==
    LET hits == {p \in 0..(Len(s) - 1) : MatchesAt(s, p)}
    IN  IF hits = {} THEN -1
        ELSE CHOOSE p \in hits : \A r \in hits : p <= r

\* Regex::find_at(s, start).start(): the 0-based offset of the leftmost match
\* that begins at or after start, or -1 for None
FindAt(s, start) ==
    LET hits == {p \in start..(Len(s) - 1) : MatchesAt(s, p)}
    IN  IF hits = {} THEN -1
        ELSE CHOOSE p \in hits : \A r \in hits : p <= r

-----------------------------------------------------------------------------
(* PandocParser::parse, from the split of the markdown text on.            *)
(* parser.pc: "for" at the head of the for loop, "while" at the head of    *)
(* the while loop, "ok" / "err" once parse has returned, "idle" when no    *)
(* parse call is modelled.                                                 *)

ParserIdle ==
    [pc |-> "idle", markdown |-> <<>>, max_section_len |-> 1,
     paragraphs |-> <<>>, s |-> <<>>, section |-> <<>>, sections |-> <<>>,
     cuts |-> <<>>]

\* the state on entry of the for loop, for a text and a max_section_len;
\* cuts records, for every cut made, the text it was made in and its offset
ParseCall(md, maxLen) ==
    [pc |-> "for", markdown |-> md, max_section_len |-> maxLen,
     paragraphs |-> SplitParagraphs(md, <<>>), s |-> <<>>, section |-> <<>>,
     sections |-> <<>>, cuts |-> <<>>]

\* let min_break_point = self.max_section_len / 2
MinBreakPoint(maxLen) == maxLen \div 2

\* for s in markdown.split("\n\n") { let mut s = s.trim(); ... }
ForNext ==
    /\ parser.pc = "for"
    /\ parser.paragraphs # <<>>
    /\ parser' = [parser EXCEPT
            !.pc = "while",
            !.s = Trim(Head(parser.paragraphs)),
            !.paragraphs = Tail(parser.paragraphs),
            !.section = <<>>]
    /\ UNCHANGED <<cacheVars, pipeVars, rs, gui, req>>

\* a cut that skips one character after the mark instead of trimming
CutUntrimmed ==
    /\ parser.pc = "while"
    /\ Len(parser.s) > parser.max_section_len
    /\ LET m == FindAt(parser.s, MinBreakPoint(parser.max_section_len))
           match_start == m + 1
       IN  /\ m # -1
           /\ parser' = [parser EXCEPT
                   !.section = Append(@, Trim(SubSeq(parser.s, 1, match_start))),
                   !.s = TrimEnd(SubSeq(parser.s, match_start + 2, Len(parser.s))),
                   !.cuts = Append(@, [s |-> parser.s, at |-> match_start])]
    /\ UNCHANGED <<cacheVars, pipeVars, rs, gui, req>>

\* one turn of the while loop that finds a break point: the text up to and
\* with the punctuation mark, trimmed, is pushed; the loop goes on with the
\* trimmed rest
Cut ==
    /\ parser.pc = "while"
    /\ Len(parser.s) > parser.max_section_len
    /\ LET m == FindAt(parser.s, MinBreakPoint(parser.max_section_len))
           match_start == m + 1
       IN  /\ m # -1
           /\ parser' = [parser EXCEPT
                   !.section = Append(@, Trim(SubSeq(parser.s, 1, match_start))),
                   !.s = Trim(SubSeq(parser.s, match_start + 1, Len(parser.s))),
                   !.cuts = Append(@, [s |-> parser.s, at |-> match_start])]
    /\ UNCHANGED <<cacheVars, pipeVars, rs, gui, req>>

\* a while loop that gives up on a text without break point and takes it
\* whole
NoBreakPointTakesRest ==
    /\ parser.pc = "while"
    /\ Len(parser.s) > parser.max_section_len
    /\ FindAt(parser.s, MinBreakPoint(parser.max_section_len)) = -1
    /\ parser' = [parser EXCEPT
            !.pc = "for",
            !.section = Append(@, parser.s),
            !.sections = Append(@, Append(parser.section, parser.s))]
    /\ UNCHANGED <<cacheVars, pipeVars, rs, gui, req>>

\* one turn of the while loop that finds no break point: parse returns Err
NoBreakPoint ==
    /\ parser.pc = "while"
    /\ Len(parser.s) > parser.max_section_len
    /\ FindAt(parser.s, MinBreakPoint(parser.max_section_len)) = -1
    /\ parser' = [parser EXCEPT !.pc = "err"]
    /\ UNCHANGED <<cacheVars, pipeVars, rs, gui, req>>

\* an end of the while loop that pushes the Section without looking at it
EndParagraphPushesEmpty ==
    /\ parser.pc = "while"
    /\ ~(Len(parser.s) > parser.max_section_len)
    /\ LET section == IF parser.s # <<>>
                      THEN Append(parser.section, parser.s)
                      ELSE parser.section
       IN  parser' = [parser EXCEPT
               !.pc = "for",
               !.section = section,
               !.sections = Append(@, section)]
    /\ UNCHANGED <<cacheVars, pipeVars, rs, gui, req>>

\* the while loop ends: the rest, when not empty, is the last Subsection, and
\* the Section, when not empty, is pushed
EndParagraph ==
    /\ parser.pc = "while"
    /\ ~(Len(parser.s) > parser.max_section_len)
    /\ LET section == IF parser.s # <<>>
                      THEN Append(parser.section, parser.s)
                      ELSE parser.section
       IN  parser' = [parser EXCEPT
               !.pc = "for",
               !.section = section,
               !.sections = IF section # <<>> THEN Append(@, section) ELSE @]
    /\ UNCHANGED <<cacheVars, pipeVars, rs, gui, req>>

\* Ok(sections)
ParseReturn ==
    /\ parser.pc = "for"
    /\ parser.paragraphs = <<>>
    /\ parser' = [parser EXCEPT !.pc = "ok"]
    /\ UNCHANGED <<cacheVars, pipeVars, rs, gui, req>>

\* what parse returned: the Sections on Ok, nothing on Err
Returned == IF parser.pc = "ok" THEN parser.sections ELSE <<>>

InitParse ==
    /\ \E md \in Texts, maxLen \in 1..MaxSectionLen :
          parser = ParseCall(md, maxLen)
    /\ CacheIdle
    /\ PipeIdle
    /\ SessionIdle /\ GuiIdle /\ RequestIdle

NextParse == ForNext \/ Cut \/ NoBreakPoint \/ EndParagraph \/ ParseReturn

SpecParse == InitParse /\ [][NextParse]_vars

-----------------------------------------------------------------------------
(* Cache (src/cache.rs): a sqlite table of translations.                   *)

\* the source texts and the translations the model's Subsections range over
SrcTexts == {"a", "b"}
DstTexts == {"x", "y"}

\* str::to_lowercase, on the letters of the model's language names
LowerChar(c) == CASE c = "E" -> "e" [] c = "F" -> "f" [] c = "D" -> "d"
                  [] OTHER -> c
ToLowercase(s) == [i \in 1..Len(s) |-> LowerChar(s[i])]

\* the language names a TranslationConfig may carry: two pairs that differ
\* in case and whitespace only, and a pair with another destination
LangPairs ==
    { <<(<<"E", "n">>), (<<"F", "r">>)>>,
      <<(<<" ", "e", "n">>), (<<"f", "r", " ">>)>>,
      <<(<<"e", "n">>), (<<"d", "e">>)>> }

\* a Cache::new that creates the table whether the file is new or not
OpenStoreAnew(exists, rows) == <<>>

\* Cache::new's view of the store: a new file gets an empty table, the
\* table of an existing file is taken as it is
OpenStore(exists, rows) == IF ~exists THEN <<>> ELSE rows

\* a Cache::new that trims the language names and keeps their case
NewCacheKeepsCase(src_lang, dst_lang) ==
    [open |-> TRUE,
     src_lang_lc |-> Trim(src_lang),
     dst_lang_lc |-> Trim(dst_lang)]

\* Cache::new's two fields: src_lang.trim().to_lowercase(), and dst_lang's
NewCache(src_lang, dst_lang) ==
    [open |-> TRUE,
     src_lang_lc |-> ToLowercase(Trim(src_lang)),
     dst_lang_lc |-> ToLowercase(Trim(dst_lang))]

\* the rows SELECT ... WHERE src_section = ? AND src_lang_lc = ? AND
\* dst_lang_lc = ? yields, as indices of the table in rowid order
Matching(rows, c, src) ==
    {i \in 1..Len(rows) : /\ rows[i].src_section = src
                          /\ rows[i].src_lang_lc = c.src_lang_lc
                          /\ rows[i].dst_lang_lc = c.dst_lang_lc}

\* Cache::get without a storage failure: query_row takes the first row
Get(rows, c, src) ==
    LET hits == Matching(rows, c, src)
    IN  IF hits = {} THEN None
        ELSE Some(rows[CHOOSE i \in hits : \A j \in hits : i <= j].dst_section)

\* an insert that does not look the source text up first
InsertUnchecked(rows, c, src, dst) ==
    Append(rows, [src_section |-> src, dst_section |-> dst,
                  src_lang_lc |-> c.src_lang_lc,
                  dst_lang_lc |-> c.dst_lang_lc])

\* Cache::insert without a storage failure: INSERT unless get finds a row
Insert(rows, c, src, dst) ==
    IF Get(rows, c, src) = None
    THEN Append(rows, [src_section |-> src, dst_section |-> dst,
                       src_lang_lc |-> c.src_lang_lc,
                       dst_lang_lc |-> c.dst_lang_lc])
    ELSE rows

\* the key of the history variable first
Key(c, src) == <<c.src_lang_lc, c.dst_lang_lc, src>>

\* history: an insert call that returned Ok is noted if it is the earliest
NoteInsert(f, c, src, dst) ==
    IF Key(c, src) \in DOMAIN f THEN f ELSE (Key(c, src) :> dst) @@ f

\* history: the call before a get
Brief(l) ==
    IF l.op = "insert"
    THEN [op |-> "insert", src |-> l.src, dst |-> l.dst, ok |-> l.ok]
    ELSE [op |-> l.op]

\* Cache::new: opens the store, creating the file and the table when the
\* file is new; fail: Connection::open fails (rusqlite::Error)
CacheNew ==
    /\ \E lp \in LangPairs, fail \in BOOLEAN :
          /\ db_exists' = (db_exists \/ ~fail)
          /\ table' = IF fail THEN table ELSE OpenStore(db_exists, table)
          /\ cache' = IF fail THEN NoCache ELSE NewCache(lp[1], lp[2])
          /\ last' = [op |-> "new", ok |-> ~fail, raw |-> lp]
    /\ UNCHANGED <<req, gui, rs, parser, first, pipeVars>>

\* Cache::get(src); fail: query_row returns an error other than
\* QueryReturnedNoRows
CacheGet ==
    /\ cache.open
    /\ \E src \in SrcTexts, fail \in BOOLEAN :
          last' = [op |-> "get", src |-> src, ok |-> ~fail, cache |-> cache,
                   raw |-> last.raw,
                   result |-> IF fail THEN None ELSE Get(table, cache, src),
                   after |-> Brief(last)]
    /\ UNCHANGED <<req, gui, rs, parser, db_exists, table, cache, first, pipeVars>>

\* Cache::insert(src, dst); fail: the get inside or the INSERT fails, and
\* nothing is stored
CacheInsert ==
    /\ cache.open
    /\ \E src \in SrcTexts, dst \in DstTexts, fail \in BOOLEAN :
          /\ table' = IF fail THEN table ELSE Insert(table, cache, src, dst)
          /\ first' = IF fail THEN first ELSE NoteInsert(first, cache, src, dst)
          /\ last' = [op |-> "insert", src |-> src, dst |-> dst, ok |-> ~fail,
                      cache |-> cache, before |-> table, raw |-> last.raw]
    /\ UNCHANGED <<req, gui, rs, parser, db_exists, cache, pipeVars>>

InitCache == parser = ParserIdle /\ CacheIdle /\ PipeIdle /\ SessionIdle /\ GuiIdle /\ RequestIdle

NextCache == CacheNew \/ CacheGet \/ CacheInsert

SpecCache == InitCache /\ [][NextCache]_vars

-----------------------------------------------------------------------------
(* LlmTranslationService::translate (src/lib.rs), with the generator of    *)
(* src/generator/pandoc.rs and the session of src/llm/openai.rs.           *)
(*                                                                         *)
(* pipe.pc names the statement the call is at: "cache_new", "build_gen",   *)
(* "build_llm", "loop" (the head of the for loop), "remote" (inside        *)
(* llm.translate), "insert", "write", "progress", "finalize", and "ok" /   *)
(* "err" once it has returned.  pipe.current is the loop's index.          *)
(*                                                                         *)
(* trace lists the calls the run has made, in order:                       *)
(*   get / insert    on the cache, of Subsection sub of Section sec        *)
(*   translate       llm.translate called with Section sec                 *)
(*   remote          the session has handled Subsection sub of Section sec *)
(*   write           generator.write called with a translated Section      *)
(*   progress        send_progress called                                  *)
(*   build_llm, drop_llm, finalize                                         *)
(*   cleanup_done    the task spawned by the drop of the session has ended *)
(* Sections are counted from 0 as in the code, Subsections from 1.         *)

\* the Sections a parsed input is made of
InputSections == {<<"a">>, <<"a", "b">>}

\* what parse may return for the input
Docs == UNION {[1..n -> InputSections] : n \in 0..MaxSections}

\* the language names of the runs' TranslationConfig: one language pair,
\* written in two ways
RunLangPairs ==
    {lp \in LangPairs : NewCache(lp[1], lp[2]).dst_lang_lc = <<"f", "r">>}

\* the Subsection counts of the Sections parse may find in a translated
\* markdown file: the count follows from the length of the translated text
PriorCounts == {1, 2}

\* a Section of the prior output with n Subsections
PriorSection(n) == [k \in 1..n |-> "p"]

\* what PandocParser::parse may return for a translated markdown file that
\* holds n Sections
PriorParses(n) == [1..n -> {PriorSection(c) : c \in PriorCounts}]

\* the translate call returns Err(kind): its locals are dropped, and with
\* them the session, if it has been built
Failed(kind) ==
    [pipe EXCEPT !.pc = "err", !.result = kind, !.llm = FALSE,
                 !.translated_md_file = FALSE]

DropLlm == IF pipe.llm THEN <<[e |-> "drop_llm"]>> ELSE <<>>

\* the locals of a translate call that has parsed doc
Started(lp, cont, doc) ==
    [pc |-> "cache_new", cfg |-> lp, continue_translation |-> cont,
     input_sections |-> doc, total_sections |-> Len(doc),
     already_translated |-> <<>>, llm |-> FALSE,
     translated_md_file |-> FALSE, current |-> 0,
     translated |-> <<>>, translated_section |-> <<>>,
     result |-> "none", prev |-> pipe.prev, rows_at_start |-> Len(table),
     dir_created |-> TRUE, parse_called |-> TRUE]

\* a translate that creates the output directory before it looks for the
\* input
TranslateChecksLate ==
    /\ pipe.pc = "idle"
    /\ \E lp \in RunLangPairs, cont \in BOOLEAN :
          \/ \E doc \in Docs : pipe' = Started(lp, cont, doc)
          \/ \E kind \in {"NotFound", "IoError", "ParseError"} :
                pipe' = [Started(lp, cont, <<>>) EXCEPT
                            !.pc = "err", !.result = kind,
                            !.dir_created = kind # "IoError",
                            !.parse_called = kind = "ParseError"]
    /\ trace' = <<>>
    /\ cache' = NoCache
    /\ UNCHANGED <<req, gui, rs, parser, db_exists, table, first, last, md_file>>

\* lib.rs:215-229: the input must exist (NotFound), the output directory is
\* created (IoError), the input is parsed (ParseError), each step only when
\* the one before succeeded.  A new call starts when none is running.
Translate ==
    /\ pipe.pc = "idle"
    /\ \E lp \in RunLangPairs, cont \in BOOLEAN :
          \/ \E doc \in Docs : pipe' = Started(lp, cont, doc)
          \/ \E kind \in {"NotFound", "IoError", "ParseError"} :
                pipe' = [Started(lp, cont, <<>>) EXCEPT
                            !.pc = "err", !.result = kind,
                            !.dir_created = kind = "ParseError",
                            !.parse_called = kind = "ParseError"]
    /\ trace' = <<>>
    /\ cache' = NoCache
    /\ UNCHANGED <<req, gui, rs, parser, db_exists, table, first, last, md_file>>

\* the caller has the result; the call's locals, the Cache among them, are
\* gone
Return ==
    /\ pipe.pc \in {"ok", "err"}
    /\ pipe' = [pc |-> "idle",
                prev |-> IF pipe.pc = "err" /\ Len(table) > pipe.rows_at_start
                         THEN "err_after_insert"
                         ELSE "other"]
    /\ trace' = <<>>
    /\ cache' = NoCache
    /\ UNCHANGED <<req, gui, rs, parser, db_exists, table, first, last, md_file>>

\* lib.rs:231: Cache::new(output.with_extension("sqlite"), src_lang, dst_lang)
OpenCache ==
    /\ pipe.pc = "cache_new"
    /\ \E fail \in BOOLEAN :
          /\ db_exists' = (db_exists \/ ~fail)
          /\ table' = IF fail THEN table ELSE OpenStore(db_exists, table)
          /\ cache' = IF fail THEN NoCache
                      ELSE NewCache(pipe.cfg[1], pipe.cfg[2])
          /\ pipe' = IF fail THEN Failed("DatabaseError")
                     ELSE [pipe EXCEPT !.pc = "build_gen"]
          /\ trace' = Append(trace, [e |-> "cache_new", ok |-> ~fail])
    /\ UNCHANGED <<req, gui, rs, parser, first, last, md_file>>

\* a build that does not look for the translated markdown when
\* continue_translation is unset, and starts the file anew
BuildGeneratorOverwrites ==
    /\ pipe.pc = "build_gen"
    /\ ~pipe.continue_translation
    /\ pipe' = [pipe EXCEPT !.pc = "build_llm"]
    /\ md_file' = [exists |-> TRUE, sections |-> 0]
    /\ trace' = Append(trace, [e |-> "build_gen", ok |-> TRUE])
    /\ UNCHANGED <<req, gui, rs, parser, cacheVars>>

\* lib.rs:233-234 and PandocGeneratorBuilder::build: without
\* continue_translation the translated markdown must not exist; with it, it
\* must exist and is parsed into the already translated Sections
BuildGenerator ==
    /\ pipe.pc = "build_gen"
    /\ \/ /\ ~pipe.continue_translation
          /\ pipe' = IF md_file.exists THEN Failed("AlreadyExists")
                     ELSE [pipe EXCEPT !.pc = "build_llm"]
       \/ /\ pipe.continue_translation
          /\ ~md_file.exists
          /\ pipe' = Failed("NotFound")
       \/ /\ pipe.continue_translation
          /\ md_file.exists
          /\ \/ pipe' = Failed("ParseError")
             \/ \E prior \in PriorParses(md_file.sections) :
                   pipe' = [pipe EXCEPT !.pc = "build_llm",
                                        !.already_translated = prior]
    /\ trace' = Append(trace, [e |-> "build_gen", ok |-> pipe'.pc # "err"])
    /\ UNCHANGED <<req, gui, rs, parser, cacheVars, md_file>>

\* a build of the session whose failure is not returned
BuildLlmFailureIgnored ==
    /\ pipe.pc = "build_llm"
    /\ \E fail \in BOOLEAN :
          /\ pipe' = [pipe EXCEPT !.pc = "loop", !.llm = ~fail]
          /\ trace' = Append(trace, [e |-> "build_llm", ok |-> ~fail])
    /\ UNCHANGED <<req, gui, rs, parser, cacheVars, md_file>>

\* lib.rs:237-241: llm_builder.build(cfg)
BuildLlm ==
    /\ pipe.pc = "build_llm"
    /\ \E fail \in BOOLEAN :
          /\ pipe' = IF fail THEN Failed("LLMError")
                     ELSE [pipe EXCEPT !.pc = "loop", !.llm = TRUE]
          /\ trace' = Append(trace, [e |-> "build_llm", ok |-> ~fail])
    /\ UNCHANGED <<req, gui, rs, parser, cacheVars, md_file>>

\* a loop that takes the Sections from the end
SectionAtReversed(sections, current) == sections[Len(sections) - current]

\* lib.rs:243: input_sections.into_iter().enumerate() at index current
SectionAt(sections, current) == sections[current + 1]

\* lib.rs:249: cached_subsections.iter().all(|opt| opt.is_some())
AllCached(cached) == \A k \in 1..Len(cached) : cached[k].some

\* a translated Section made of the cached texts in reverse
AssembleReversed(cached) ==
    [k \in 1..Len(cached) |-> cached[Len(cached) + 1 - k].value]

\* a translated Section taken from the prior output when its Subsection
\* count is that of the parsed Section, whatever came before
AssembleOrReuse(cached) ==
    IF /\ pipe.current < Len(pipe.already_translated)
       /\ Len(pipe.already_translated[pipe.current + 1]) = Len(cached)
    THEN pipe.already_translated[pipe.current + 1]
    ELSE [k \in 1..Len(cached) |-> cached[k].value]

\* lib.rs:251: the translated Section made of the cached texts
Assemble(cached) == [k \in 1..Len(cached) |-> cached[k].value]

\* an insert whose error is dropped: the run goes on
InsertErrorIgnored == [pipe EXCEPT !.pc = "write"]

\* lib.rs:263: cache.insert(..)? returns the error
InsertError == Failed("DatabaseError")

\* the get calls of lib.rs:244-246 on Section sec, the first n of them; the
\* last one fails when failed
GetEvents(sec, section, n, failed) ==
    [k \in 1..n |->
        [e |-> "get", sec |-> sec, sub |-> k, src |-> section[k],
         ok |-> ~(failed /\ k = n),
         result |-> IF failed /\ k = n THEN None
                    ELSE Get(table, cache, section[k])]]

\* lib.rs:243-256: the next Section's Subsections are looked up in the
\* cache, in order, up to the first lookup that fails (failAt, 0: none
\* fails).  With every Subsection found the translated Section is made of
\* the cached texts; otherwise llm.translate is called with the Section.
Lookup ==
    /\ pipe.pc = "loop"
    /\ pipe.current < pipe.total_sections
    /\ LET section == SectionAt(pipe.input_sections, pipe.current)
           n == Len(section)
           cached == [k \in 1..n |-> Get(table, cache, section[k])]
       IN  \E failAt \in 0..n :
              IF failAt > 0
              THEN /\ pipe' = Failed("DatabaseError")
                   /\ trace' = trace
                         \o GetEvents(pipe.current, section, failAt, TRUE)
                         \o DropLlm
              ELSE IF AllCached(cached)
              THEN /\ pipe' = [pipe EXCEPT
                          !.pc = "write",
                          !.translated_section = Assemble(cached)]
                   /\ trace' = trace
                         \o GetEvents(pipe.current, section, n, FALSE)
              ELSE /\ pipe' = [pipe EXCEPT !.pc = "remote",
                                           !.translated = <<>>]
                   /\ trace' = trace
                         \o GetEvents(pipe.current, section, n, FALSE)
                         \o <<[e |-> "translate", sec |-> pipe.current,
                               section |-> section]>>
    /\ UNCHANGED <<req, gui, rs, parser, cacheVars, md_file>>

\* OpenAiGPT::translate, one turn of its loop (openai.rs:158-236): the
\* session translates the next Subsection of the Section, or fails, and then
\* llm.translate returns the error (lib.rs:257-260)
RemoteSubsection ==
    /\ pipe.pc = "remote"
    /\ LET section == SectionAt(pipe.input_sections, pipe.current)
           k == Len(pipe.translated) + 1
       IN  \/ \E dst \in DstTexts :
                /\ pipe' = IF k = Len(section)
                           THEN [pipe EXCEPT
                                   !.pc = "insert",
                                   !.translated = Append(@, dst),
                                   !.translated_section =
                                       Append(pipe.translated, dst)]
                           ELSE [pipe EXCEPT !.translated = Append(@, dst)]
                /\ trace' = Append(trace,
                       [e |-> "remote", sec |-> pipe.current, sub |-> k,
                        ok |-> TRUE, src |-> section[k], dst |-> dst])
           \/ /\ pipe' = Failed("LLMError")
              /\ trace' = Append(trace,
                       [e |-> "remote", sec |-> pipe.current, sub |-> k,
                        ok |-> FALSE, src |-> section[k]]) \o DropLlm
    /\ UNCHANGED <<req, gui, rs, parser, cacheVars, md_file>>

\* the table after cache.insert of the first n pairs of section.zip(translated)
RECURSIVE InsertPairs(_, _, _, _, _)
InsertPairs(rows, c, section, translated, n) ==
    IF n = 0 THEN rows
    ELSE Insert(InsertPairs(rows, c, section, translated, n - 1), c,
                section[n], translated[n])

\* the insert calls of lib.rs:262-264 on Section sec, the first n of them;
\* the last one fails when failed
InsertEvents(sec, section, translated, n, failed) ==
    [k \in 1..n |->
        [e |-> "insert", sec |-> sec, sub |-> k, src |-> section[k],
         dst |-> translated[k], ok |-> ~(failed /\ k = n)]]

\* an insert loop that leaves out the Subsections the lookup had found
InsertTranslatedMissesOnly ==
    /\ pipe.pc = "insert"
    /\ LET section == SectionAt(pipe.input_sections, pipe.current)
           translated == pipe.translated_section
           all == InsertEvents(pipe.current, section, translated,
                               Len(section), FALSE)
           missed(ev) == Get(table, cache, ev.src) = None
       IN  /\ table' = InsertPairs(table, cache, section, translated,
                                   Len(section))
           /\ pipe' = [pipe EXCEPT !.pc = "write"]
           /\ trace' = trace \o SelectSeq(all, missed)
    /\ UNCHANGED <<req, gui, rs, parser, db_exists, cache, first, last, md_file>>

\* lib.rs:262-264: the pairs of source and translated Subsection are
\* inserted in order, up to the first insert that fails (failAt, 0: none)
InsertTranslated ==
    /\ pipe.pc = "insert"
    /\ LET section == SectionAt(pipe.input_sections, pipe.current)
           translated == pipe.translated_section
           n == IF Len(section) < Len(translated) THEN Len(section)
                ELSE Len(translated)
       IN  \E failAt \in 0..n :
              IF failAt > 0
              THEN /\ table' = InsertPairs(table, cache, section, translated,
                                           failAt - 1)
                   /\ pipe' = InsertError
                   /\ trace' = trace
                         \o InsertEvents(pipe.current, section, translated,
                                         failAt, TRUE)
                         \o DropLlm
              ELSE /\ table' = InsertPairs(table, cache, section, translated, n)
                   /\ pipe' = [pipe EXCEPT !.pc = "write"]
                   /\ trace' = trace
                         \o InsertEvents(pipe.current, section, translated,
                                         n, FALSE)
    /\ UNCHANGED <<req, gui, rs, parser, db_exists, cache, first, last, md_file>>

\* lib.rs:269 and PandocGenrator::write: the first write of a run creates
\* (truncates) the translated markdown file; the Section's text and then a
\* blank line are appended.  fail: the step that fails, if any.
Write ==
    /\ pipe.pc = "write"
    /\ \E fail \in {"none", "create", "text", "separator"} :
          LET opened == IF pipe.translated_md_file THEN md_file
                        ELSE [exists |-> TRUE, sections |-> 0]
              appended == [opened EXCEPT !.sections = @ + 1]
          IN  /\ fail = "create" => ~pipe.translated_md_file
              /\ md_file' = CASE fail = "create" -> md_file
                              [] fail = "text" -> opened
                              [] OTHER -> appended
              /\ pipe' = IF fail = "none"
                         THEN [pipe EXCEPT !.pc = "progress",
                                           !.translated_md_file = TRUE]
                         ELSE Failed("IoError")
              /\ trace' = Append(trace,
                     [e |-> "write", sec |-> pipe.current,
                      section |-> pipe.translated_section,
                      ok |-> fail = "none"])
                   \o (IF fail = "none" THEN <<>> ELSE DropLlm)
    /\ UNCHANGED <<req, gui, rs, parser, cacheVars>>

\* a Progress that counts the Sections before the current one
SendProgressCurrent ==
    /\ pipe.pc = "progress"
    /\ pipe' = [pipe EXCEPT !.pc = "loop", !.current = @ + 1]
    /\ trace' = Append(trace,
           [e |-> "progress", processed_sections |-> pipe.current,
            total_sections |-> pipe.total_sections])
    /\ UNCHANGED <<req, gui, rs, parser, cacheVars, md_file>>

\* lib.rs:271-275: Progress is sent, the loop goes on with the next Section
SendProgress ==
    /\ pipe.pc = "progress"
    /\ pipe' = [pipe EXCEPT !.pc = "loop", !.current = @ + 1]
    /\ trace' = Append(trace,
           [e |-> "progress", processed_sections |-> pipe.current + 1,
            total_sections |-> pipe.total_sections])
    /\ UNCHANGED <<req, gui, rs, parser, cacheVars, md_file>>

\* the session goes out of scope at the end of the loop and is not dropped
EndLoopKeepsSession ==
    /\ pipe.pc = "loop"
    /\ pipe.current = pipe.total_sections
    /\ pipe' = [pipe EXCEPT !.pc = "finalize", !.llm = FALSE]
    /\ UNCHANGED <<req, gui, rs, parser, cacheVars, md_file, trace>>

\* lib.rs:275-276: the loop is over, the block ends and the session is dropped
EndLoop ==
    /\ pipe.pc = "loop"
    /\ pipe.current = pipe.total_sections
    /\ pipe' = [pipe EXCEPT !.pc = "finalize", !.llm = FALSE]
    /\ trace' = trace \o DropLlm
    /\ UNCHANGED <<req, gui, rs, parser, cacheVars, md_file>>

\* the task that OpenAiGPT::drop has spawned ends: the request to delete
\* the thread has succeeded, or it has failed and the failure is logged.
\* The task is followed until the translate call has returned to its
\* caller.
CleanupTask ==
    /\ pipe.pc # "idle"
    /\ \E p \in 1..Len(trace) : trace[p].e = "drop_llm"
    /\ \A p \in 1..Len(trace) : trace[p].e # "cleanup_done"
    /\ \E ok \in BOOLEAN :
          trace' = Append(trace, [e |-> "cleanup_done", ok |-> ok])
    /\ UNCHANGED <<req, gui, rs, parser, cacheVars, md_file, pipe>>

\* lib.rs:278-280 and PandocGenrator::finalize: the file is closed and, when
\* the output is no markdown file, converted by pandoc
Finalize ==
    /\ pipe.pc = "finalize"
    /\ \E fail \in BOOLEAN :
          /\ pipe' = IF fail THEN Failed("OtherError")
                     ELSE [pipe EXCEPT !.pc = "ok", !.result = "Ok",
                                       !.translated_md_file = FALSE]
          /\ trace' = Append(trace, [e |-> "finalize", ok |-> ~fail])
    /\ UNCHANGED <<req, gui, rs, parser, cacheVars, md_file>>

InitPipe == parser = ParserIdle /\ CacheIdle /\ PipeIdle /\ SessionIdle /\ GuiIdle /\ RequestIdle

NextPipe ==
    \/ Translate \/ Return \/ OpenCache \/ BuildGenerator \/ BuildLlm
    \/ Lookup \/ RemoteSubsection \/ InsertTranslated
    \/ Write \/ SendProgress \/ EndLoop \/ Finalize \/ CleanupTask

SpecPipe == InitPipe /\ [][NextPipe]_vars

-----------------------------------------------------------------------------
(* Two runs in a row: a run that returned Ok is remembered in pipe.prev    *)
(* with its configuration, its input and the Sections it wrote, and the    *)
(* next translate call is made with the same language pair on the same     *)
(* input; the store and the files are what the first run left.             *)

\* no run is remembered
NoFirstRun == [ok |-> FALSE]

\* the Sections the run has written, in the order of the input
Written ==
    [s \in 1..pipe.total_sections |->
        LET w == CHOOSE p \in 1..Len(trace) :
                     trace[p].e = "write" /\ trace[p].ok /\ trace[p].sec = s - 1
        IN  trace[w].section]

\* lib.rs:215-229, as Translate; after a run that returned Ok the call is
\* repeated on the input of that run, with its language pair
TranslateAgain ==
    /\ pipe.pc = "idle"
    /\ \E lp \in RunLangPairs, cont \in BOOLEAN :
          IF pipe.prev.ok
          THEN /\ NewCache(lp[1], lp[2]) =
                     NewCache(pipe.prev.cfg[1], pipe.prev.cfg[2])
               /\ pipe' = Started(lp, cont, pipe.prev.input_sections)
          ELSE \/ \E doc \in Docs : pipe' = Started(lp, cont, doc)
               \/ \E kind \in {"NotFound", "IoError", "ParseError"} :
                     pipe' = [Started(lp, cont, <<>>) EXCEPT
                                 !.pc = "err", !.result = kind,
                                 !.dir_created = kind = "ParseError",
                                 !.parse_called = kind = "ParseError"]
    /\ trace' = <<>>
    /\ cache' = NoCache
    /\ UNCHANGED <<req, gui, rs, parser, db_exists, table, first, last, md_file>>

\* the caller has the result, as Return; a run that returned Ok is
\* remembered unless it was itself the repeat of one
ReturnRemembered ==
    /\ pipe.pc \in {"ok", "err"}
    /\ pipe' = [pc |-> "idle",
                prev |-> IF pipe.pc = "ok" /\ ~pipe.prev.ok
                         THEN [ok |-> TRUE, cfg |-> pipe.cfg,
                               input_sections |-> pipe.input_sections,
                               written |-> Written]
                         ELSE NoFirstRun]
    /\ trace' = <<>>
    /\ cache' = NoCache
    /\ UNCHANGED <<req, gui, rs, parser, db_exists, table, first, last, md_file>>

InitRerun ==
    /\ parser = ParserIdle /\ CacheIdle /\ SessionIdle /\ GuiIdle
    /\ RequestIdle
    /\ pipe = [pc |-> "idle", prev |-> NoFirstRun]
    /\ md_file = NoFile
    /\ trace = <<>>

NextRerun ==
    \/ TranslateAgain \/ ReturnRemembered \/ OpenCache \/ BuildGenerator
    \/ BuildLlm \/ Lookup \/ RemoteSubsection \/ InsertTranslated
    \/ Write \/ SendProgress \/ EndLoop \/ Finalize \/ CleanupTask

SpecRerun == InitRerun /\ [][NextRerun]_vars

-----------------------------------------------------------------------------
(* OpenAiGPT::translate and run_with_backoff (src/llm/openai.rs).          *)
(*                                                                         *)
(* rs.pc names the statement the call is at: "post" (the user message is   *)
(* sent), "backoff" (the head of the 'outer loop), "create" (runs.create), *)
(* "retrieve" (runs.retrieve, the head of the inner loop), "list" (the     *)
(* reply messages are listed), "ok" / "err" once translate has returned,   *)
(* "panic" when it has panicked.                                           *)
(* rs.runs counts the runs created for the current Subsection, rs.polls    *)
(* the polls of the current run that found it Queued or InProgress, and    *)
(* rs.observed is the outcome of the last runs.create / runs.retrieve.     *)
(* The backoff clock is counted in ticks; a sleep lasts the current        *)
(* interval and a poll of a run that is not finished may take a tick.      *)

MAX_SEQUENTIAL_ERRORS == 5

\* RunStatus, with the LastErrorCode of a Failed run
RunStatuses ==
    {"Queued", "InProgress", "Completed", "Cancelling", "Cancelled",
     "Failed:RateLimitExceeded", "Failed:InvalidPrompt", "Failed:ServerError",
     "Failed:None", "Incomplete", "Expired", "RequiresAction"}

\* the statuses in which a run has ended
TerminalStatuses ==
    {"Completed", "Cancelled", "Failed:RateLimitExceeded",
     "Failed:InvalidPrompt", "Failed:ServerError", "Failed:None",
     "Incomplete", "Expired"}

\* OpenAIError: the two variants wrap_request retries, and any other
RequestErrors == {"Reqwest", "JSONDeserialize", "ApiError"}

\* what run_openai_request returns
RunOpenAiRequest == {"Ok", "InteractionError"}

\* what the list of reply messages may look like; has_more: more messages
\* than the page that was returned
ReplyShapes ==
    {"one_text", "has_more", "no_message", "two_messages", "no_content",
     "two_contents", "not_text"}

\* ExponentialBackoff::default(): the clock starts, the first interval
DefaultBackoff == [elapsed |-> 0, current_interval |-> 1]

\* ExponentialBackoff::next_backoff: the interval to sleep, 0 for None
\* (the time allowed has elapsed, or would have after the sleep)
NextBackoffOf(b) ==
    IF b.elapsed > MaxElapsed \/ b.elapsed + b.current_interval > MaxElapsed
    THEN 0
    ELSE b.current_interval

\* the interval grows up to its maximum
IncrementCurrentInterval(b) ==
    IF b.current_interval >= MaxInterval THEN MaxInterval
    ELSE b.current_interval + 1

\* the clock after d more ticks; past MaxElapsed all values behave alike
Elapse(b, d) ==
    [b EXCEPT !.elapsed = IF b.elapsed + d > MaxElapsed THEN MaxElapsed + 1
                          ELSE b.elapsed + d]

\* no reply has been listed for the Subsection
NoReply == [shape |-> "none", text |-> "x", run |-> 0]

\* translate is called with a Section. runs counts the runs created for the
\* Subsection and is the id of the latest, restarts the continue 'outer
\* taken, sleeps the sleeps; observed is what the last create or retrieve
\* returned, reply what the listing returned and for which run; my_message
\* is the Subsection whose message was posted last, replied_to the
\* my_message of each reply pushed; open counts the runs that
\* run_with_backoff has created and not found in a terminal status
StartTranslate(section) ==
    [pc |-> "post", section |-> section, k |-> 1, subsections |-> <<>>,
     sequential_errors |-> 0, backoff |-> DefaultBackoff, runs |-> 0,
     polls |-> 0, observed |-> "none", result |-> "none",
     restarts |-> 0, sleeps |-> 0, reply |-> NoReply,
     my_message |-> 0, replied_to |-> <<>>, open |-> 0]

\* translate returns Err(LLMError::InteractionError)
Bail(s) == [s EXCEPT !.pc = "err", !.result = "InteractionError"]

\* retry_or_bail bails only above the maximum
RetryOrBailAboveMax(s) ==
    IF s.sequential_errors > MAX_SEQUENTIAL_ERRORS
    THEN Bail(s)
    ELSE [s EXCEPT !.sequential_errors = @ + 1, !.pc = "backoff",
                   !.restarts = @ + 1]

\* the macro retry_or_bail
RetryOrBail(s) ==
    IF s.sequential_errors >= MAX_SEQUENTIAL_ERRORS
    THEN Bail(s)
    ELSE [s EXCEPT !.sequential_errors = @ + 1, !.pc = "backoff",
                   !.restarts = @ + 1]

\* the failure arms of the macro wrap_request
WrapRequestErr(s, e) ==
    IF e \in {"Reqwest", "JSONDeserialize"} THEN RetryOrBail(s) ELSE Bail(s)

\* the arms of Expired and Cancelled go through retry_or_bail
OnStatusRetrying(s, status) ==
    IF status \in {"Expired", "Cancelled"} THEN RetryOrBail(s)
    ELSE CASE status = "Completed" -> [s EXCEPT !.pc = "list"]
           [] status \in {"Queued", "InProgress"} -> s
           [] status = "Failed:RateLimitExceeded" ->
                  [s EXCEPT !.pc = "backoff", !.restarts = @ + 1]
           [] status = "RequiresAction" -> [s EXCEPT !.pc = "panic"]
           [] status \in {"Failed:ServerError", "Failed:None", "Incomplete"} ->
                  RetryOrBail(s)
           [] OTHER -> Bail(s)

\* a run found Queued or InProgress is given up and the outer loop
\* started again
OnStatusRestartsWaiting(s, status) ==
    IF status \in {"Queued", "InProgress"}
    THEN [s EXCEPT !.pc = "backoff", !.restarts = @ + 1]
    ELSE CASE status = "Completed" -> [s EXCEPT !.pc = "list"]
           [] status = "Failed:RateLimitExceeded" ->
                  [s EXCEPT !.pc = "backoff", !.restarts = @ + 1]
           [] status = "RequiresAction" -> [s EXCEPT !.pc = "panic"]
           [] status \in {"Failed:ServerError", "Failed:None", "Incomplete"} ->
                  RetryOrBail(s)
           [] OTHER -> Bail(s)

\* the match on run.status in the inner loop
OnStatus(s, status) ==
    CASE status = "Completed" -> [s EXCEPT !.pc = "list"]
      [] status \in {"Queued", "InProgress"} -> s
      [] status \in {"Cancelling", "Cancelled"} -> Bail(s)
      [] status = "Failed:RateLimitExceeded" ->
                  [s EXCEPT !.pc = "backoff", !.restarts = @ + 1]
      [] status = "Failed:InvalidPrompt" -> Bail(s)
      [] status = "Failed:ServerError" -> RetryOrBail(s)
      [] status = "Failed:None" -> RetryOrBail(s)
      [] status = "Incomplete" -> RetryOrBail(s)
      [] status = "Expired" -> Bail(s)
      [] status = "RequiresAction" -> [s EXCEPT !.pc = "panic"]

\* the user message of Subsection k is sent; on success run_with_backoff is
\* entered, with its counter at 0 and a new backoff
PostMessage ==
    /\ rs.pc = "post"
    /\ \E r \in RunOpenAiRequest :
          rs' = IF r = "Ok"
                THEN [rs EXCEPT !.pc = "backoff", !.sequential_errors = 0,
                                !.backoff = DefaultBackoff, !.runs = 0,
                                !.polls = 0, !.observed = "none",
                                !.restarts = 0, !.sleeps = 0,
                                !.reply = NoReply,
                                !.my_message = rs.k, !.open = 0]
                ELSE Bail(rs)
    /\ UNCHANGED <<parser, cacheVars, pipeVars, gui, req>>

\* the head of the 'outer loop waits for ever once the backoff is exhausted
NextBackoffWaitsForEver ==
    /\ rs.pc = "backoff"
    /\ LET d == NextBackoffOf(rs.backoff)
           b == [rs.backoff EXCEPT
                    !.current_interval = IncrementCurrentInterval(rs.backoff)]
       IN  /\ d # 0
           /\ rs' = [rs EXCEPT !.pc = "create", !.backoff = Elapse(b, d),
                               !.sleeps = @ + 1]
    /\ UNCHANGED <<parser, cacheVars, pipeVars, gui, req>>

\* the head of the 'outer loop: sleep for the next interval, or bail when
\* the backoff is exhausted
NextBackoff ==
    /\ rs.pc = "backoff"
    /\ LET d == NextBackoffOf(rs.backoff)
           b == [rs.backoff EXCEPT
                    !.current_interval = IncrementCurrentInterval(rs.backoff)]
       IN  rs' = IF d = 0 THEN Bail(rs)
                 ELSE [rs EXCEPT !.pc = "create", !.backoff = Elapse(b, d),
                                 !.sleeps = @ + 1]
    /\ UNCHANGED <<parser, cacheVars, pipeVars, gui, req>>

\* runs.create
CreateRun ==
    /\ rs.pc = "create"
    /\ \E r \in {"Ok"} \cup RequestErrors :
          LET s == [rs EXCEPT !.observed = r] IN
          rs' = IF r = "Ok"
                THEN [s EXCEPT !.pc = "retrieve", !.runs = @ + 1, !.polls = 0,
                               !.open = @ + 1]
                ELSE WrapRequestErr(s, r)
    /\ UNCHANGED <<parser, cacheVars, pipeVars, gui, req>>

\* runs.retrieve and the match on the status found
RetrieveRun ==
    /\ rs.pc = "retrieve"
    /\ \E r \in RunStatuses \cup RequestErrors, d \in 0..1 :
          LET waiting == r \in {"Queued", "InProgress"}
              s == [rs EXCEPT !.observed = r,
                              !.polls = IF waiting THEN @ + 1 ELSE @,
                              !.backoff = Elapse(@, d),
                              !.open = IF r \in TerminalStatuses
                                       THEN @ - 1 ELSE @]
          IN  /\ IF waiting THEN rs.polls < MaxPolls ELSE d = 0
              /\ rs' = IF r \in RequestErrors THEN WrapRequestErr(s, r)
                       ELSE OnStatus(s, r)
    /\ UNCHANGED <<parser, cacheVars, pipeVars, gui, req>>

\* translate returns Ok with the first reply it has pushed
ListMessagesReturnsEarly ==
    /\ rs.pc = "list"
    /\ \E r \in RunOpenAiRequest, shape \in ReplyShapes, dst \in DstTexts :
          LET s == [rs EXCEPT !.reply = [shape |-> shape, text |-> dst,
                                         run |-> rs.runs]]
          IN
          /\ (r # "Ok" \/ shape # "one_text") => dst = "x"
          /\ r # "Ok" => shape = "one_text"
          /\ rs' = CASE r # "Ok" -> Bail(rs)
                     [] r = "Ok" /\ shape = "has_more" ->
                            [s EXCEPT !.pc = "panic"]
                     [] r = "Ok" /\ shape = "one_text" ->
                            IF rs.k <= Len(rs.section)
                            THEN [s EXCEPT !.subsections = Append(@, dst),
                                           !.replied_to =
                                               Append(@, rs.my_message),
                                           !.pc = "ok", !.result = "Ok"]
                            ELSE [s EXCEPT !.subsections = Append(@, dst),
                                           !.replied_to =
                                               Append(@, rs.my_message),
                                           !.k = @ + 1, !.pc = "post"]
                     [] OTHER -> Bail(s)
    /\ UNCHANGED <<parser, cacheVars, pipeVars, gui, req>>

\* the reply messages of the run are listed and checked; the one text is
\* pushed, and the loop goes on to the next Subsection or translate returns
ListMessages ==
    /\ rs.pc = "list"
    /\ \E r \in RunOpenAiRequest, shape \in ReplyShapes, dst \in DstTexts :
          LET s == [rs EXCEPT !.reply = [shape |-> shape, text |-> dst,
                                         run |-> rs.runs]]
          IN
          /\ (r # "Ok" \/ shape # "one_text") => dst = "x"
          /\ r # "Ok" => shape = "one_text"
          /\ rs' = CASE r # "Ok" -> Bail(rs)
                     [] r = "Ok" /\ shape = "has_more" ->
                            [s EXCEPT !.pc = "panic"]
                     [] r = "Ok" /\ shape = "one_text" ->
                            IF rs.k = Len(rs.section)
                            THEN [s EXCEPT !.subsections = Append(@, dst),
                                           !.replied_to =
                                               Append(@, rs.my_message),
                                           !.pc = "ok", !.result = "Ok"]
                            ELSE [s EXCEPT !.subsections = Append(@, dst),
                                           !.replied_to =
                                               Append(@, rs.my_message),
                                           !.k = @ + 1, !.pc = "post"]
                     [] OTHER -> Bail(s)
    /\ UNCHANGED <<parser, cacheVars, pipeVars, gui, req>>

InitRun ==
    /\ parser = ParserIdle /\ CacheIdle /\ PipeIdle /\ GuiIdle /\ RequestIdle
    /\ \E section \in InputSections : rs = StartTranslate(section)

NextRun ==
    \/ PostMessage
    \/ NextBackoff
    \/ CreateRun
    \/ RetrieveRun
    \/ ListMessages

SpecRun == InitRun /\ [][NextRun]_vars

\* translate is a future that its caller awaits: the runtime polls it
\* until it is complete, and every remote call returns, so a step that
\* can be taken is taken
FairSpecRun == SpecRun /\ WF_vars(NextRun)

-----------------------------------------------------------------------------
(* run_openai_request: one remote request, called again after a sleep when *)
(* it fails with a transport or a deserialization error. attempts counts   *)
(* the calls of req(), sleeps the sleeps; applied counts the calls that    *)
(* took effect at the service: every call that returned Ok, and any of the *)
(* calls whose answer was lost or could not be read.                       *)

\* the requests that go through run_openai_request
Requests ==
    {"assistants.list", "assistants.update", "assistants.create",
     "threads.create", "messages.create", "messages.list", "threads.delete"}

\* run_openai_request is entered: its counter at 0, a new backoff
StartRequest(kind) ==
    [pc |-> "call", kind |-> kind, sequential_errors |-> 0,
     backoff |-> DefaultBackoff, attempts |-> 0, sleeps |-> 0,
     applied |-> 0, observed |-> "none", duration |-> 0, result |-> "none"]

\* run_openai_request returns Err(LLMError::InteractionError)
RequestBail(q) == [q EXCEPT !.pc = "err", !.result = "InteractionError"]

\* retry_or_bail bails only above the maximum
RequestRetryOrBailAboveMax(q) ==
    IF q.sequential_errors > MAX_SEQUENTIAL_ERRORS
    THEN RequestBail(q)
    ELSE LET d == NextBackoffOf(q.backoff)
             c == [q EXCEPT !.sequential_errors = @ + 1]
         IN  IF d = 0 THEN RequestBail(c)
             ELSE [c EXCEPT !.pc = "sleep", !.duration = d,
                            !.backoff.current_interval =
                                IncrementCurrentInterval(q.backoff)]

\* the macro retry_or_bail of run_openai_request: the error is returned
\* with the counter at its maximum; otherwise the counter is raised and the
\* next interval is slept, or the error returned when there is none
RequestRetryOrBail(q) ==
    IF q.sequential_errors >= MAX_SEQUENTIAL_ERRORS
    THEN RequestBail(q)
    ELSE LET d == NextBackoffOf(q.backoff)
             c == [q EXCEPT !.sequential_errors = @ + 1]
         IN  IF d = 0 THEN RequestBail(c)
             ELSE [c EXCEPT !.pc = "sleep", !.duration = d,
                            !.backoff.current_interval =
                                IncrementCurrentInterval(q.backoff)]

\* req().await and the match on its result; the call takes d ticks
Request ==
    /\ req.pc = "call"
    /\ \E r \in {"Ok"} \cup RequestErrors, applied \in BOOLEAN, d \in 0..1 :
          LET q == [req EXCEPT !.attempts = @ + 1,
                               !.applied = IF applied THEN @ + 1 ELSE @,
                               !.observed = r,
                               !.backoff = Elapse(@, d)]
          IN  /\ r = "Ok" => applied
              /\ r = "ApiError" => ~applied
              /\ req' = CASE r = "Ok" ->
                                 [q EXCEPT !.pc = "ok", !.result = "Ok"]
                          [] r \in {"Reqwest", "JSONDeserialize"} ->
                                 RequestRetryOrBail(q)
                          [] OTHER -> RequestBail(q)
    /\ UNCHANGED <<parser, cacheVars, pipeVars, rs, gui>>

\* tokio::time::sleep(duration).await; continue 'outer
RequestSleep ==
    /\ req.pc = "sleep"
    /\ req' = [req EXCEPT !.pc = "call", !.sleeps = @ + 1,
                          !.backoff = Elapse(@, req.duration),
                          !.duration = 0]
    /\ UNCHANGED <<parser, cacheVars, pipeVars, rs, gui>>

InitRequest ==
    /\ parser = ParserIdle /\ CacheIdle /\ PipeIdle /\ SessionIdle /\ GuiIdle
    /\ \E kind \in Requests : req = StartRequest(kind)

NextRequest == Request \/ RequestSleep

SpecRequest == InitRequest /\ [][NextRequest]_vars

-----------------------------------------------------------------------------
(* The front-end of main.rs: TranslationGui's status and translation_thread *)
(* fields, the status channel (tx, rx), the task spawned by a click and    *)
(* the task it spawns to run translate. The window outlives its tasks, so  *)
(* a send finds the receiver. sent is the history of the messages the      *)
(* tasks of the latest click have sent.                                    *)

Terminal == {"Success", "Error"}

\* a TranslationStatus: Started, Progress(Progress { processed_sections,
\* total_sections }), Success, Error(error)
Message(t, a, b) == [t |-> t, a |-> a, b |-> b]

Progress(processed, total) == Message("Progress", processed, total)

\* the three errors the front-end shows: what translate returned, the
\* panic of its task, the settings file that could not be read
Failure == Message("Error", 1, 0)
Crash == Message("Error", 2, 0)
SettingsError == Message("Error", 3, 0)

\* TranslationGui as main builds it: nothing shown, no input chosen, no
\* task, an empty channel; settings is Ok or Err
GuiStart(settings_ok) ==
    [pc |-> "gui", settings_ok |-> settings_ok, input_path |-> FALSE,
     status |-> None, translation_thread |-> FALSE,
     chan |-> <<>>, outer |-> "none", inner |-> "none",
     total |-> 0, processed |-> 0, sent |-> <<>>]

\* tx.send(m) on the unbounded channel
Send(g, m) == [g EXCEPT !.chan = Append(@, m), !.sent = Append(@, m)]

\* the while let Ok(status) = rx.try_recv() loop of update: takes every
\* message waiting, a terminal one clears translation_thread, and the last
\* one taken is the status shown
RECURSIVE Drain(_)
Drain(g) ==
    IF g.chan = <<>> THEN g
    ELSE Drain([g EXCEPT
                  !.chan = Tail(@),
                  !.status = Some(Head(g.chan)),
                  !.translation_thread =
                      IF Head(g.chan).t \in Terminal THEN FALSE ELSE @])

\* the if btn.clicked() block of update: status is cleared and the outer
\* task is spawned, its handle kept in translation_thread
Clicked(g) ==
    [g EXCEPT !.status = None, !.translation_thread = TRUE,
              !.outer = "start", !.inner = "none",
              !.total = 0, !.processed = 0, !.sent = <<>>]

\* the Translate button of update is enabled
Enabled(g) == g.input_path /\ ~g.translation_thread /\ g.settings_ok

\* one frame, TranslationGui::update: a settings error is shown, the
\* channel is drained, then the user has picked an input file, or clicked
\* the Translate button if it is enabled, or done neither
Update ==
    /\ gui.pc = "gui"
    /\ \E input \in {"none", "pick_file", "translate"} :
          LET e == IF gui.settings_ok THEN gui
                   ELSE [gui EXCEPT !.status = Some(SettingsError)]
              g == Drain(e)
          IN  gui' = CASE input = "pick_file" ->
                            [g EXCEPT !.input_path = TRUE]
                       [] input = "translate" /\ Enabled(g) -> Clicked(g)
                       [] OTHER -> g
    /\ gui' # gui
    /\ UNCHANGED <<parser, cacheVars, pipeVars, rs, req>>

\* the outer task up to its await: sends Started, spawns the task that
\* runs translate on a document of total sections
OuterStart ==
    /\ gui.pc = "gui" /\ gui.outer = "start"
    /\ \E total \in 1..MaxSections :
          gui' = [Send(gui, Message("Started", 0, 0)) EXCEPT
                     !.outer = "await", !.inner = "running",
                     !.total = total]
    /\ UNCHANGED <<parser, cacheVars, pipeVars, rs, req>>

\* SendProgressThroughChannel::send_progress, called by translate after
\* each section
SendProgressThroughChannel ==
    /\ gui.pc = "gui" /\ gui.inner = "running"
    /\ gui.processed < gui.total
    /\ gui' = [Send(gui, Progress(gui.processed + 1, gui.total)) EXCEPT
                  !.processed = @ + 1]
    /\ UNCHANGED <<parser, cacheVars, pipeVars, rs, req>>

\* the inner task ends: translate returns Ok after its last section,
\* returns an error at any point, or panics at any point
InnerEnd ==
    /\ gui.pc = "gui" /\ gui.inner = "running"
    /\ \E res \in {"ok", "err", "panic"} :
          /\ res = "ok" => gui.processed = gui.total
          /\ gui' = [gui EXCEPT !.inner = res]
    /\ UNCHANGED <<parser, cacheVars, pipeVars, rs, req>>

\* as OuterJoin, but a panic of the inner task is propagated and nothing
\* is sent
OuterJoinPropagatesPanic ==
    /\ gui.pc = "gui" /\ gui.outer = "await"
    /\ gui.inner \in {"ok", "err", "panic"}
    /\ gui' = [(CASE gui.inner = "ok" -> Send(gui, Message("Success", 0, 0))
                  [] gui.inner = "err" -> Send(gui, Failure)
                  [] OTHER -> gui)
               EXCEPT !.outer = "done"]
    /\ UNCHANGED <<parser, cacheVars, pipeVars, rs, req>>

\* the outer task after its await, match translation_res: Success for
\* Ok(Ok(())), Error(failure) for Ok(Err(failure)), Error("Crash!") for the
\* JoinError of a panicked task
OuterJoin ==
    /\ gui.pc = "gui" /\ gui.outer = "await"
    /\ gui.inner \in {"ok", "err", "panic"}
    /\ gui' = [(CASE gui.inner = "ok" -> Send(gui, Message("Success", 0, 0))
                  [] gui.inner = "err" -> Send(gui, Failure)
                  [] OTHER -> Send(gui, Crash))
               EXCEPT !.outer = "done"]
    /\ UNCHANGED <<parser, cacheVars, pipeVars, rs, req>>

InitGui ==
    /\ parser = ParserIdle /\ CacheIdle /\ PipeIdle /\ SessionIdle
    /\ RequestIdle
    /\ \E settings_ok \in BOOLEAN : gui = GuiStart(settings_ok)

NextGui ==
    \/ Update
    \/ OuterStart
    \/ SendProgressThroughChannel
    \/ InnerEnd
    \/ OuterJoin

SpecGui == InitGui /\ [][NextGui]_vars

-----------------------------------------------------------------------------
(* C2: get returns the destination text of the earliest insert of the      *)
(* source text under the language pair; an insert of a source text that    *)
(* has an entry leaves the table as it is and returns Ok; no reachable     *)
(* table holds two rows for one (language pair, source text).              *)
C2_FirstWriteWins ==
    /\ last.op = "get" /\ last.ok =>
          last.result = IF Key(last.cache, last.src) \in DOMAIN first
                        THEN Some(first[Key(last.cache, last.src)])
                        ELSE None
    /\ last.op = "insert" /\ last.ok
          /\ Get(last.before, last.cache, last.src) # None =>
             table = last.before
    /\ \A lp \in LangPairs, src \in SrcTexts :
          Cardinality(Matching(table, NewCache(lp[1], lp[2]), src)) <= 1

\* a second insert of a source text, with another destination text, was
\* followed by a get of that source text
C2_Witness ==
    /\ last.op = "get" /\ last.ok
    /\ last.src = "a"
    /\ last.result = Some("x")
    /\ last.after = [op |-> "insert", src |-> "a", dst |-> "y", ok |-> TRUE]

-----------------------------------------------------------------------------
(* C1: when parse returns Ok, every Subsection of every returned Section   *)
(* is at most max_section_len long.                                        *)
C1_LengthBound ==
    parser.pc = "ok" =>
        \A i \in 1..Len(parser.sections) :
            \A k \in 1..Len(parser.sections[i]) :
                Len(parser.sections[i][k]) <= parser.max_section_len

-----------------------------------------------------------------------------
(* Reading the trace of the current translate call.                        *)

\* the indices of the parsed Sections
Secs == IF pipe.pc = "idle" THEN {} ELSE 0..(pipe.total_sections - 1)

\* the places of the trace where call e was made on Section sec
At(e, sec) == {p \in 1..Len(trace) : trace[p].e = e /\ trace[p].sec = sec}

\* the places of the trace where call e was made on Subsection sub of
\* Section sec and returned Ok
OkAt(e, sec, sub) ==
    {p \in At(e, sec) : trace[p].sub = sub /\ trace[p].ok}

\* the parsed Section sec, read off the input and not through the loop
Parsed(sec) == pipe.input_sections[sec + 1]

\* every Subsection of Section sec was looked up and found
FullyCached(sec) ==
    \A k \in 1..Len(Parsed(sec)) :
        \E p \in OkAt("get", sec, k) : trace[p].result.some

\* the text the lookup of Subsection k of Section sec found
CachedText(sec, k) ==
    trace[CHOOSE p \in OkAt("get", sec, k) : TRUE].result.value

\* the text the session returned for Subsection k of Section sec
RemoteText(sec, k) ==
    trace[CHOOSE p \in OkAt("remote", sec, k) : TRUE].dst

\* the write at place w of the trace wrote Section sec as the cache/remote
\* path makes it: every Subsection was looked up before, and the Section
\* written holds the session's texts if llm.translate was called with the
\* Section and the texts found in the cache otherwise
NormalPath(sec, w) ==
    /\ \A k \in 1..Len(Parsed(sec)) :
          \E q \in OkAt("get", sec, k) : q < w
    /\ IF At("translate", sec) # {}
       THEN /\ \A k \in 1..Len(Parsed(sec)) : OkAt("remote", sec, k) # {}
            /\ trace[w].section =
                  [k \in 1..Len(Parsed(sec)) |-> RemoteText(sec, k)]
       ELSE /\ FullyCached(sec)
            /\ trace[w].section =
                  [k \in 1..Len(Parsed(sec)) |-> CachedText(sec, k)]

\* the index of the first Section whose prior translation has another
\* Subsection count, -1 when there is none
FirstMismatch ==
    LET differ == {i \in Secs :
                      /\ i < Len(pipe.already_translated)
                      /\ Len(pipe.already_translated[i + 1]) # Len(Parsed(i))}
    IN  IF differ = {} THEN -1
        ELSE CHOOSE i \in differ : \A j \in differ : i <= j

\* the calls that returned an error while a Section was processed
FailedCalls ==
    {p \in 1..Len(trace) :
        /\ trace[p].e \in {"get", "insert", "remote", "write"}
        /\ ~trace[p].ok}

\* the writes of the run that returned Ok
OkWrites == {p \in 1..Len(trace) : trace[p].e = "write" /\ trace[p].ok}

-----------------------------------------------------------------------------
(* C3: a Section whose Subsections are all found in the cache is not       *)
(* handed to the session; it is written as the cached texts in Subsection  *)
(* order, which are the texts the table holds; and every call of the       *)
(* session for a Section comes after the lookups of all its Subsections.   *)
C3_CachedSectionNoRemote ==
    \A i \in Secs :
        /\ FullyCached(i) =>
              /\ At("translate", i) = {}
              /\ At("remote", i) = {}
              /\ \A k \in 1..Len(Parsed(i)) :
                    Get(table, cache, Parsed(i)[k]) = Some(CachedText(i, k))
              /\ \A w \in At("write", i) :
                    trace[w].section =
                        [k \in 1..Len(Parsed(i)) |-> CachedText(i, k)]
              /\ pipe.current = i /\ pipe.pc # "err" =>
                    /\ pipe.pc \in {"write", "progress"}
                    /\ pipe.translated_section =
                          [k \in 1..Len(Parsed(i)) |->
                              Get(table, cache, Parsed(i)[k]).value]
        /\ \A p \in At("translate", i) \cup At("remote", i) :
              \A k \in 1..Len(Parsed(i)) :
                  \E q \in At("get", i) : q < p /\ trace[q].sub = k

\* a Section of two Subsections, both found in the cache with different
\* texts, has been written
C3_Witness ==
    \E i \in Secs :
        /\ Len(Parsed(i)) = 2
        /\ FullyCached(i)
        /\ \E w \in At("write", i) :
              trace[w].ok /\ trace[w].section = <<"x", "y">>

-----------------------------------------------------------------------------
(* C4: once a run has returned, with Ok or with an error, every Subsection *)
(* translation the session completed has exactly one insert call for its   *)
(* pair of source and translated text.                                     *)
C4_EveryRemoteTranslationInserted ==
    pipe.pc \in {"ok", "err"} =>
        \A p \in 1..Len(trace) :
            trace[p].e = "remote" /\ trace[p].ok =>
                Cardinality({q \in At("insert", trace[p].sec) :
                                /\ trace[q].sub = trace[p].sub
                                /\ trace[q].src = trace[p].src
                                /\ trace[q].dst = trace[p].dst}) = 1

-----------------------------------------------------------------------------
(* C5: no step of a run, its abort and the start of the next run among     *)
(* them, removes or alters an entry of the store; and a lookup of a run    *)
(* returns the entry the store held for the run's language pair before.    *)
C5_EntriesPersist ==
    [][ /\ \A lp \in RunLangPairs, src \in SrcTexts :
              Get(table, NewCache(lp[1], lp[2]), src) # None =>
                  Get(table', NewCache(lp[1], lp[2]), src)
                      = Get(table, NewCache(lp[1], lp[2]), src)
        /\ \A p \in (Len(trace) + 1)..Len(trace') :
              trace'[p].e = "get" /\ trace'[p].ok =>
                  trace'[p].result =
                      Get(table, NewCache(pipe.cfg[1], pipe.cfg[2]),
                          trace'[p].src)
      ]_vars

\* the run before aborted after it had inserted the only entry of the
\* store, and a lookup of this run has found it
C5_Witness ==
    /\ pipe.pc # "idle"
    /\ pipe.prev = "err_after_insert"
    /\ pipe.rows_at_start = 1
    /\ Len(table) = 1
    /\ \E p \in 1..Len(trace) :
          trace[p].e = "get" /\ trace[p].ok /\ trace[p].result.some

-----------------------------------------------------------------------------
(* C6: in a resumed run whose prior output differs in Subsection count at  *)
(* Section i, every Section from i on that is written is written as the    *)
(* cache/remote path makes it, never as the prior Section.                 *)
C6_MismatchInvalidatesRest ==
    pipe.pc # "idle" /\ pipe.continue_translation /\ FirstMismatch # -1 =>
        \A i \in Secs :
            i >= FirstMismatch =>
                \A w \in At("write", i) : NormalPath(i, w)

\* Section 0 differs in count, Section 1 has a prior Section of the same
\* count, and Section 1 has been written
C6_Witness ==
    /\ pipe.pc # "idle"
    /\ pipe.continue_translation
    /\ FirstMismatch = 0
    /\ Len(pipe.already_translated) >= 2
    /\ pipe.total_sections >= 2
    /\ Len(pipe.already_translated[2]) = Len(Parsed(1))
    /\ \E w \in At("write", 1) : trace[w].ok

-----------------------------------------------------------------------------
(* C7: in a resumed run, a Section before the first mismatch that has a    *)
(* prior Section (of the same Subsection count) is neither looked up in    *)
(* the cache nor handed to the session, and is written as the prior        *)
(* Section.                                                                *)
C7_PriorSectionReused ==
    pipe.pc # "idle" /\ pipe.continue_translation =>
        \A i \in Secs :
            /\ i < Len(pipe.already_translated)
            /\ FirstMismatch = -1 \/ i < FirstMismatch
            => /\ At("get", i) = {}
               /\ At("translate", i) = {}
               /\ At("remote", i) = {}
               /\ \A w \in At("write", i) :
                     trace[w].section = pipe.already_translated[i + 1]

-----------------------------------------------------------------------------
(* C8: the k-th write of a run is that of Section k - 1, the Section       *)
(* written is the translation of that parsed Section, made of the texts    *)
(* found or returned for its Subsections in order, and no Section is       *)
(* looked up or handed to the session before the Section before it has     *)
(* been written.                                                           *)
C8_WrittenInSourceOrder ==
    \A p \in 1..Len(trace) :
        /\ trace[p].e = "write" =>
              /\ trace[p].sec =
                    Cardinality({q \in 1..(p - 1) : trace[q].e = "write"})
              /\ Len(trace[p].section) = Len(Parsed(trace[p].sec))
              /\ NormalPath(trace[p].sec, p)
        /\ trace[p].e \in {"get", "remote"} =>
              /\ trace[p].sub \in 1..Len(Parsed(trace[p].sec))
              /\ trace[p].src = Parsed(trace[p].sec)[trace[p].sub]
        /\ trace[p].e = "translate" =>
              trace[p].section = Parsed(trace[p].sec)
        /\ trace[p].e \in {"get", "translate", "remote"}
              /\ trace[p].sec > 0 =>
              \E w \in At("write", trace[p].sec - 1) : w < p /\ trace[w].ok

\* two different Sections have been written, the second by the session
C8_Witness ==
    /\ pipe.pc # "idle"
    /\ pipe.total_sections = 2
    /\ Parsed(0) # Parsed(1)
    /\ At("translate", 1) # {}
    /\ \E w \in At("write", 1) : trace[w].ok

-----------------------------------------------------------------------------
(* C9: after a lookup, an insert, a session call or a write has failed,    *)
(* the run has returned the error of that call and has done nothing more   *)
(* but drop the session, whose cleanup task may end: no lookup,            *)
(* translation, write, Progress or finalize follows; the Sections written  *)
(* before are in the file and the entries inserted before are in the       *)
(* store.                                                                  *)
C9_FailureAborts ==
    \A p \in FailedCalls :
        /\ pipe.pc = "err"
        /\ pipe.result = CASE trace[p].e \in {"get", "insert"} -> "DatabaseError"
                           [] trace[p].e = "remote" -> "LLMError"
                           [] trace[p].e = "write" -> "IoError"
        /\ \A q \in (p + 1)..Len(trace) :
              trace[q].e \in {"drop_llm", "cleanup_done"}
        /\ OkWrites # {} =>
              md_file.exists /\ md_file.sections >= Cardinality(OkWrites)
        /\ \A q \in 1..(p - 1) :
              trace[q].e = "insert" /\ trace[q].ok =>
                  Get(table, cache, trace[q].src) # None

\* an insert has failed on the second Section, after the first Section was
\* translated by the session, inserted and written
C9_Witness ==
    /\ \E p \in FailedCalls : trace[p].e = "insert" /\ trace[p].sec = 1
    /\ \E q \in At("insert", 0) : trace[q].ok
    /\ \E w \in At("write", 0) : trace[w].ok

-----------------------------------------------------------------------------
(* C10: a poll that finds the run Cancelled, Cancelling, Expired or Failed *)
(* with InvalidPrompt ends translate at once with InteractionError,        *)
(* whatever the sequential-error counter holds, and no step of the call    *)
(* (no runs.create, no runs.retrieve) follows it.                          *)

FatalStatuses == {"Cancelling", "Cancelled", "Expired", "Failed:InvalidPrompt"}

C10_FatalStatusFailsAtOnce ==
    [][IF rs.observed \in FatalStatuses
       THEN FALSE
       ELSE rs'.observed \in FatalStatuses =>
               /\ rs'.pc = "err"
               /\ rs'.result = "InteractionError"
               /\ rs'.runs = rs.runs
               /\ rs'.sequential_errors = rs.sequential_errors]_vars

C10_Witness ==
    /\ rs.pc = "err"
    /\ rs.observed = "Expired"
    /\ rs.sequential_errors = 2
    /\ rs.runs = 3

-----------------------------------------------------------------------------
(* Reading a parse call.                                                   *)

\* s without the whitespace it begins with / ends with
RECURSIVE StripLeft(_)
StripLeft(s) ==
    IF s # <<>> /\ s[1] \in {" ", "\n"}
    THEN StripLeft(SubSeq(s, 2, Len(s))) ELSE s
RECURSIVE StripRight(_)
StripRight(s) ==
    IF s # <<>> /\ s[Len(s)] \in {" ", "\n"}
    THEN StripRight(SubSeq(s, 1, Len(s) - 1)) ELSE s
Strip(s) == StripRight(StripLeft(s))

\* a sentence boundary of s whose mark is at the 0-based offset p: one of
\* . ! ? followed by whitespace and an uppercase letter
Boundary(s, p) ==
    /\ p >= 0 /\ p < Len(s)
    /\ s[p + 1] \in {".", "!", "?"}
    /\ \E q \in (p + 3)..Len(s) :
          /\ s[q] = "B"
          /\ \A k \in (p + 2)..(q - 1) : s[k] \in {" ", "\n"}

\* the blank-line-separated paragraphs of the text, trimmed
Paragraphs ==
    LET all == SplitParagraphs(parser.markdown, <<>>)
    IN  [i \in 1..Len(all) |-> Strip(all[i])]

\* the number of paragraphs the for loop is through with
Done ==
    IF parser.pc \in {"for", "ok"}
    THEN Len(Paragraphs) - Len(parser.paragraphs) ELSE 0

NotEmpty(s) == s # <<>>

\* the Subsections joined with single spaces
RECURSIVE JoinSp(_)
JoinSp(section) ==
    IF section = <<>> THEN <<>>
    ELSE IF Len(section) = 1 THEN section[1]
    ELSE section[1] \o <<" ">> \o JoinSp(Tail(section))

\* p is the Subsections of the section in order, with nothing but a run of
\* whitespace between one and the next
RECURSIVE Reassembles(_, _)
Reassembles(p, section) ==
    IF section = <<>> THEN p = <<>>
    ELSE IF Len(section) = 1 THEN p = section[1]
    ELSE LET n == Len(section[1]) IN
         /\ n > 0 /\ n < Len(p)
         /\ SubSeq(p, 1, n) = section[1]
         /\ p[n + 1] \in {" ", "\n"}
         /\ Reassembles(StripLeft(SubSeq(p, n + 1, Len(p))), Tail(section))

-----------------------------------------------------------------------------
(* C11: a step of the while loop on a text that is longer than             *)
(* max_section_len and has no sentence boundary at or after offset         *)
(* max_section_len / 2 makes parse return an error, and with it no         *)
(* Section, whatever the earlier paragraphs gave.                          *)
C11_NoBoundaryFails ==
    [][(/\ parser.pc = "while"
        /\ Len(parser.s) > parser.max_section_len
        /\ ~\E p \in (parser.max_section_len \div 2)..(Len(parser.s) - 1) :
               Boundary(parser.s, p))
       => (parser'.pc = "err" /\ Returned' = <<>>)]_vars

C11_Witness ==
    /\ parser.pc = "err"
    /\ parser.sections # <<>>
    /\ Boundary(parser.s, 0)

-----------------------------------------------------------------------------
(* C12 as stated: the Subsections of the Section of a paragraph, joined    *)
(* with single spaces, are the trimmed paragraph.                          *)
C12_JoinReproducesParagraph ==
    Done >= 1 => JoinSp(parser.section) = Paragraphs[Done]

(* C12 as amended: the trimmed paragraph is the Subsections of its Section *)
(* in order with a run of whitespace between neighbours, the run that      *)
(* stood at the cut.                                                       *)
C12_ParagraphIsSubsectionsAndWhitespace ==
    Done >= 1 => Reassembles(Paragraphs[Done], parser.section)

C12_Witness ==
    /\ parser.pc = "ok"
    /\ Len(parser.section) = 2
    /\ JoinSp(parser.section) # Paragraphs[Done]

-----------------------------------------------------------------------------
(* C13: on Ok there is one Section per paragraph that is not empty after   *)
(* trimming, in document order; no Section is empty; and a paragraph no    *)
(* longer than max_section_len is the one Subsection of its Section.       *)
C13_OneSectionPerParagraph ==
    parser.pc = "ok" =>
        LET ps == SelectSeq(Paragraphs, NotEmpty) IN
        /\ Len(parser.sections) = Len(ps)
        /\ \A i \in 1..Len(ps) :
              /\ parser.sections[i] # <<>>
              /\ Reassembles(ps[i], parser.sections[i])
              /\ Len(ps[i]) <= parser.max_section_len =>
                    parser.sections[i] = <<ps[i]>>

C13_Witness ==
    /\ parser.pc = "ok"
    /\ Len(Paragraphs) = 3
    /\ Paragraphs[2] = <<>>
    /\ Len(parser.sections) = 2

-----------------------------------------------------------------------------
(* C14: every cut is made in the remaining text right after the mark of    *)
(* the first sentence boundary whose mark is at or after offset            *)
(* max_section_len / 2; the trimmed left part is pushed as the next        *)
(* Subsection and the trimmed right part is the new remaining text.        *)
C14_CutAtFirstBoundaryFromMidpoint ==
    [][parser'.cuts # parser.cuts =>
         LET c == parser'.cuts[Len(parser'.cuts)]
             mark == c.at - 1
             half == parser.max_section_len \div 2
         IN  /\ parser'.cuts = Append(parser.cuts, c)
             /\ c.s = parser.s
             /\ Len(parser.s) > parser.max_section_len
             /\ mark >= half
             /\ Boundary(parser.s, mark)
             /\ \A p \in half..(mark - 1) : ~Boundary(parser.s, p)
             /\ parser'.section =
                    Append(parser.section, Strip(SubSeq(parser.s, 1, c.at)))
             /\ parser'.s = Strip(SubSeq(parser.s, c.at + 1, Len(parser.s)))
             /\ parser'.sections = parser.sections]_vars

C14_Witness ==
    /\ parser.cuts # <<>>
    /\ parser.cuts[1].at = 4
    /\ Boundary(parser.cuts[1].s, 0)
    /\ parser.max_section_len = 3

-----------------------------------------------------------------------------
(* C15: an insert through a Cache opened with the names (s, d) looks at    *)
(* and adds to the entries of the trimmed and lowercased (s, d) alone, and *)
(* a get through a Cache opened with (s', d') returns the earliest entry   *)
(* of the source text under the trimmed and lowercased (s', d'), if any:   *)
(* so an entry is seen through another Cache exactly when the two pairs    *)
(* normalize equally, and entries of one source text under pairs that      *)
(* normalize differently stand side by side.  last.raw is the pair of      *)
(* names the Cache of the call was opened with.                            *)

\* a language name trimmed and lowercased
Fold(name) ==
    LET n == Strip(name)
    IN  [i \in 1..Len(n) |->
            CASE n[i] = "E" -> "e" [] n[i] = "F" -> "f" [] n[i] = "D" -> "d"
              [] OTHER -> n[i]]

\* the entries of the table for src under the names of pair lp
EntriesUnder(rows, lp, src) ==
    {i \in 1..Len(rows) : /\ rows[i].src_section = src
                          /\ rows[i].src_lang_lc = Fold(lp[1])
                          /\ rows[i].dst_lang_lc = Fold(lp[2])}

C15_PartitionByNormalizedPair ==
    [][/\ (last'.op = "insert" /\ last'.ok) =>
            table' = IF EntriesUnder(table, last'.raw, last'.src) # {}
                     THEN table
                     ELSE Append(table,
                                 [src_section |-> last'.src,
                                  dst_section |-> last'.dst,
                                  src_lang_lc |-> Fold(last'.raw[1]),
                                  dst_lang_lc |-> Fold(last'.raw[2])])
       /\ (last'.op = "get" /\ last'.ok) =>
            LET hits == EntriesUnder(table, last'.raw, last'.src)
            IN  last'.result =
                    IF hits = {} THEN None
                    ELSE Some(table[CHOOSE i \in hits :
                                       \A j \in hits : i <= j].dst_section)
      ]_vars

\* a get through the pair written " en" / "fr " finds the entry of its
\* partition, the second of two entries the table holds for the source text
C15_Witness ==
    /\ last.op = "get" /\ last.ok
    /\ last.raw = <<(<<" ", "e", "n">>), (<<"f", "r", " ">>)>>
    /\ Len(table) = 2
    /\ table[1].src_section = last.src /\ table[1].dst_lang_lc = <<"d", "e">>
    /\ table[1].dst_section = "x"
    /\ table[2].src_section = last.src /\ table[2].dst_lang_lc = <<"f", "r">>
    /\ last.result = Some("y")

-----------------------------------------------------------------------------
(* C16: a Section whose Subsections were all looked up, one of them        *)
(* without an entry, is handed to the session once and whole; each of its  *)
(* Subsections is translated at most once; inserts come after the session  *)
(* has translated them all; and when the Section is written it is written  *)
(* as the session's texts, after one insert call for every pair of source  *)
(* and translated Subsection by position.                                  *)

\* every Subsection of Section sec was looked up, and one was not found
Missed(sec) ==
    /\ \A k \in 1..Len(Parsed(sec)) : OkAt("get", sec, k) # {}
    /\ \E k \in 1..Len(Parsed(sec)) :
          \E p \in OkAt("get", sec, k) : ~trace[p].result.some

C16_MissingSubsectionOneRemoteCall ==
    \A i \in Secs :
        Missed(i) =>
            LET n == Len(Parsed(i)) IN
            /\ Cardinality(At("translate", i)) = 1
            /\ \A p \in At("translate", i) :
                  /\ trace[p].section = Parsed(i)
                  /\ \A q \in At("get", i) : q < p
                  /\ \A q \in At("remote", i) \cup At("insert", i) : p < q
            /\ \A k \in 1..n : Cardinality(OkAt("remote", i, k)) <= 1
            /\ \A q \in At("insert", i) :
                  /\ \A k \in 1..n : \E r \in OkAt("remote", i, k) : r < q
                  /\ trace[q].src = Parsed(i)[trace[q].sub]
                  /\ trace[q].dst = RemoteText(i, trace[q].sub)
            /\ \A w \in At("write", i) :
                  /\ trace[w].section = [k \in 1..n |-> RemoteText(i, k)]
                  /\ \A k \in 1..n :
                        Cardinality({q \in At("insert", i) :
                                        q < w /\ trace[q].sub = k}) = 1

\* a Section of two Subsections, the first found in the cache and the
\* second not, has been written
C16_Witness ==
    \E i \in Secs :
        /\ Len(Parsed(i)) = 2
        /\ \E p \in OkAt("get", i, 1) : trace[p].result.some
        /\ \E p \in OkAt("get", i, 2) : ~trace[p].result.some
        /\ \E w \in At("write", i) : trace[w].ok

-----------------------------------------------------------------------------
(* C17: the Progress calls of a run are numbered 1, 2, ... in              *)
(* processed_sections, each comes right after the write of the Section     *)
(* with index processed_sections - 1 and carries the number of parsed      *)
(* Sections as total_sections; every write that returned Ok is followed    *)
(* by its Progress; there are never more than total_sections of them, and  *)
(* exactly that many once the run has returned Ok.                         *)

\* the places of the trace where Progress was sent
Sent == {p \in 1..Len(trace) : trace[p].e = "progress"}

C17_OneProgressPerSection ==
    /\ \A p \in Sent :
          /\ trace[p].processed_sections =
                Cardinality({q \in Sent : q <= p})
          /\ trace[p].processed_sections <= trace[p].total_sections
          /\ trace[p].total_sections = Len(pipe.input_sections)
          /\ p > 1
          /\ trace[p - 1].e = "write" /\ trace[p - 1].ok
          /\ trace[p - 1].sec = trace[p].processed_sections - 1
    /\ \A w \in OkWrites : w < Len(trace) => w + 1 \in Sent
    /\ pipe.pc = "ok" => Cardinality(Sent) = Len(pipe.input_sections)

C17_Witness ==
    /\ pipe.pc = "ok"
    /\ Len(pipe.input_sections) = 2
    /\ trace[Len(trace) - 2] =
          [e |-> "progress", processed_sections |-> 2, total_sections |-> 2]

-----------------------------------------------------------------------------
(* C18: a run builds the session at most once; every lookup, session call, *)
(* insert, write and Progress comes after the one build that returned Ok,  *)
(* and every session call before the session is dropped; when the build    *)
(* fails the run has returned its error and none of these calls was made.  *)

\* the places of the trace where the session was built
Builds == {p \in 1..Len(trace) : trace[p].e = "build_llm"}

\* the places of the trace where a Section was worked on
SectionCalls ==
    {p \in 1..Len(trace) :
        trace[p].e \in {"get", "translate", "remote", "insert", "write",
                        "progress"}}

C18_OneSessionBuiltFirst ==
    /\ Cardinality(Builds) <= 1
    /\ \A p \in SectionCalls : \E b \in Builds : b < p /\ trace[b].ok
    /\ \A p \in 1..Len(trace) :
          trace[p].e \in {"translate", "remote"} =>
              \A q \in 1..(p - 1) : trace[q].e # "drop_llm"
    /\ pipe.pc = "remote" => pipe.llm
    /\ \A b \in Builds :
          ~trace[b].ok =>
              /\ pipe.pc = "err" /\ pipe.result = "LLMError"
              /\ SectionCalls = {}
              /\ b = Len(trace)

\* the session was called for the first and for the second Section
C18_Witness ==
    /\ pipe.pc # "idle"
    /\ At("translate", 0) # {}
    /\ At("translate", 1) # {}
    /\ Cardinality(Builds) = 1

\* the build of the session failed for an input with Sections
C18_WitnessBuildFailed ==
    /\ pipe.pc = "err"
    /\ \E b \in Builds : ~trace[b].ok
    /\ pipe.total_sections = 2

-----------------------------------------------------------------------------
(* C19: when the translated markdown exists and continue_translation is    *)
(* unset, the build of the generator returns the AlreadyExists error, and  *)
(* no step of the run up to and with its return changes the file.          *)
C19_ExistingOutputNotOverwritten ==
    [][/\ (/\ pipe.pc = "build_gen"
           /\ ~pipe.continue_translation
           /\ md_file.exists) =>
              /\ pipe'.pc = "err"
              /\ pipe'.result = "AlreadyExists"
              /\ md_file' = md_file
       /\ (pipe.pc = "err" /\ pipe.result = "AlreadyExists") =>
              /\ md_file' = md_file
              /\ ~pipe.continue_translation
              /\ \A p \in 1..Len(trace) :
                    trace[p].e \in {"cache_new", "build_gen"}
       /\ pipe.pc \in {"idle", "cache_new"} => md_file' = md_file
      ]_vars

\* the build has refused a file that holds two Sections
C19_Witness ==
    /\ pipe.pc = "err"
    /\ pipe.result = "AlreadyExists"
    /\ md_file.sections = 2

-----------------------------------------------------------------------------
(* C20: a translate call that finds no input returns the NotFound error    *)
(* having done nothing else: the output directory was not created, parse   *)
(* was not called, no Cache, generator or session was made and no Progress *)
(* sent, and the store and the translated markdown are as they were.       *)
C20_MissingInputFailsFirst ==
    [][(pipe.pc = "idle" /\ pipe'.pc = "err" /\ pipe'.result = "NotFound") =>
          /\ ~pipe'.dir_created
          /\ ~pipe'.parse_called
          /\ trace' = <<>>
          /\ cache' = NoCache
          /\ ~pipe'.llm /\ ~pipe'.translated_md_file
          /\ db_exists' = db_exists /\ table' = table
          /\ md_file' = md_file]_vars

\* a call has found no input, after a run that left a store and a file
C20_Witness ==
    /\ pipe.pc = "err"
    /\ pipe.result = "NotFound"
    /\ trace = <<>>
    /\ db_exists /\ md_file.exists

-----------------------------------------------------------------------------
(* C21: the messages sent for one click are Started first, then Progress   *)
(* messages only, then at most one of Success and Error, which is the last *)
(* message; once the outer task is done the terminal message has been      *)
(* sent, an Error when the task running translate panicked; the channel    *)
(* holds the messages not yet taken in the order they were sent.           *)
C21_StartedProgressTerminal ==
    gui.pc = "gui" =>
       /\ \A i \in 1..Len(gui.sent) :
             /\ (gui.sent[i].t = "Started") <=> (i = 1)
             /\ gui.sent[i].t \in Terminal => i = Len(gui.sent)
             /\ gui.sent[i].t \in {"Started", "Progress"} \cup Terminal
       /\ gui.outer = "done" =>
             /\ gui.sent # <<>>
             /\ gui.sent[Len(gui.sent)].t \in Terminal
             /\ gui.sent[Len(gui.sent)].t = "Success" <=> gui.inner = "ok"
       /\ gui.outer \in {"start", "await"} =>
             \A i \in 1..Len(gui.sent) : gui.sent[i].t \notin Terminal
       /\ Len(gui.chan) <= Len(gui.sent)
       /\ \A i \in 1..Len(gui.chan) :
             gui.chan[i] = gui.sent[Len(gui.sent) - Len(gui.chan) + i]

\* the task running translate panicked after a Progress message, and the
\* outer task has ended
C21_Witness ==
    /\ gui.pc = "gui"
    /\ gui.outer = "done" /\ gui.inner = "panic"
    /\ Len(gui.sent) = 3
    /\ gui.sent[2].t = "Progress"
    /\ gui.sent[3] = Crash

-----------------------------------------------------------------------------
(* C22: a step that lists the reply messages makes the Subsection          *)
(* translation succeed only on one message of one text block, whose text   *)
(* is the Subsection pushed; on every other listing that was returned it   *)
(* returns the InteractionError, with no Subsection pushed, no run         *)
(* started and no sleep.                                                   *)
C22_OnlyOneTextReplySucceeds ==
    [][rs.pc = "list" /\ rs' # rs =>
          /\ rs'.pc \in {"post", "ok"} =>
                /\ rs'.reply.shape = "one_text"
                /\ rs'.subsections = Append(rs.subsections, rs'.reply.text)
          /\ rs'.reply.shape \notin {"none", "one_text"} =>
                /\ rs'.pc = "err" /\ rs'.result = "InteractionError"
                /\ rs'.subsections = rs.subsections
                /\ rs'.runs = rs.runs /\ rs'.sleeps = rs.sleeps
      ]_vars

-----------------------------------------------------------------------------
\* what retry_or_bail is called for: the statuses, and the errors of
\* runs.create and runs.retrieve
Retryable ==
    {"Failed:ServerError", "Failed:None", "Incomplete", "Reqwest",
     "JSONDeserialize"}

\* a step of runs.create or runs.retrieve
Called == rs.pc \in {"create", "retrieve"} /\ rs' # rs

-----------------------------------------------------------------------------
(* C25: a create that returns a run, and a poll that finds the run Queued, *)
(* InProgress or Completed, leave the counter at zero.                     *)
C25_SuccessResetsCounter ==
    [][Called /\ rs'.observed \in {"Ok", "Queued", "InProgress", "Completed"}
          => rs'.sequential_errors = 0
      ]_vars

-----------------------------------------------------------------------------
(* C26: a poll that finds the run Failed with RateLimitExceeded goes back  *)
(* to the head of the outer loop with the counter as it was and no error   *)
(* returned, and the step at the head of the loop that follows sleeps and  *)
(* goes on to create a run, with the counter as it was.                    *)
C26_RateLimitIsRetried ==
    [][/\ Called /\ rs'.observed = "Failed:RateLimitExceeded" =>
             /\ rs'.pc = "backoff" /\ rs'.result = "none"
             /\ rs'.sequential_errors = rs.sequential_errors
       /\ rs.pc = "backoff" /\ rs.observed = "Failed:RateLimitExceeded"
             /\ rs' # rs =>
             /\ rs'.pc = "create" /\ rs'.sleeps = rs.sleeps + 1
             /\ rs'.sequential_errors = rs.sequential_errors
      ]_vars

-----------------------------------------------------------------------------
(* C27: past the head of the outer loop, a Subsection translation has      *)
(* slept as many times as it has restarted: not at all while its first run *)
(* is created, polled and listed.                                          *)
C27_OneSleepPerRestart ==
    rs.pc \in {"create", "retrieve", "list"} => rs.sleeps = rs.restarts

-----------------------------------------------------------------------------
(* C28: the sleep at the head of the outer loop that follows a run Failed  *)
(* with RateLimitExceeded is the first interval of a new backoff.          *)
C28_RateLimitRestartsBackoff ==
    [][rs.pc = "backoff" /\ rs.observed = "Failed:RateLimitExceeded"
          /\ rs'.pc = "create" =>
          NextBackoffOf(rs.backoff) = NextBackoffOf(DefaultBackoff)
      ]_vars

-----------------------------------------------------------------------------
\* translate has returned or its task has panicked
Ended == rs.pc \in {"ok", "err", "panic"}

(* C29: with every call returning and every run waiting for MaxPolls polls *)
(* at most, a Subsection translation that has entered run_with_backoff     *)
(* comes to list the reply of a completed run or ends with the error or    *)
(* the panic, and the translate call ends; at the head of the outer loop   *)
(* an exhausted backoff returns the InteractionError.                      *)
C29_SubsectionTranslationEnds ==
    /\ (rs.pc \in {"backoff", "create", "retrieve"})
          ~> (rs.pc = "list" \/ Ended)
    /\ <>Ended
    /\ [][rs.pc = "backoff" /\ NextBackoffOf(rs.backoff) = 0 /\ rs' # rs =>
             rs'.pc = "err" /\ rs'.result = "InteractionError"]_vars

\* rate-limit failures alone, five or more of them, and then the backoff
\* was exhausted
C29_Witness ==
    /\ rs.pc = "err" /\ rs.observed = "Failed:RateLimitExceeded"
    /\ rs.sequential_errors = 0
    /\ rs.restarts >= MAX_SEQUENTIAL_ERRORS
    /\ rs.sleeps = rs.restarts
    /\ NextBackoffOf(rs.backoff) = 0

-----------------------------------------------------------------------------
(* C30: a poll that finds the run Queued or InProgress stays in the inner  *)
(* loop on the same run, with no run created, no sleep, no restart, and    *)
(* the counter and the backoff interval as they were; a poll that finds it *)
(* Completed goes on to list the replies, and the listing is asked for     *)
(* that run, the latest created.                                           *)
C30_WaitingRunIsPolledAgain ==
    /\ [](rs.pc = "list" => rs.observed = "Completed" /\ rs.runs > 0)
    /\ [][rs.pc = "retrieve" /\ rs' # rs =>
             /\ rs'.observed \in {"Queued", "InProgress"} =>
                   /\ rs'.pc = "retrieve" /\ rs'.runs = rs.runs
                   /\ rs'.polls = rs.polls + 1
                   /\ rs'.sleeps = rs.sleeps /\ rs'.restarts = rs.restarts
                   /\ rs'.sequential_errors = rs.sequential_errors
                   /\ rs'.backoff.current_interval =
                         rs.backoff.current_interval
             /\ rs'.observed = "Completed" =>
                   rs'.pc = "list" /\ rs'.runs = rs.runs
         ]_vars
    /\ [][rs.pc = "list" /\ rs'.reply # NoReply => rs'.reply.run = rs.runs
         ]_vars

\* the second run of a Subsection was found waiting twice, then Completed,
\* and its reply was listed
C30_Witness ==
    /\ rs.pc \in {"post", "ok"}
    /\ rs.polls = MaxPolls /\ rs.runs = 2
    /\ rs.reply.shape = "one_text" /\ rs.reply.run = 2

-----------------------------------------------------------------------------
\* the drops of the session, and the ends of the cleanup task
Drops == {p \in 1..Len(trace) : trace[p].e = "drop_llm"}
Cleanups == {p \in 1..Len(trace) : trace[p].e = "cleanup_done"}
Built == \E b \in Builds : trace[b].ok

(* C23: a run drops the session, and so spawns the cleanup task, once at   *)
(* most and only after it has built it; once the loop is over or the run   *)
(* has returned Ok or an error after the build, it has dropped it exactly  *)
(* once; the cleanup task ends after the drop, with either outcome, in a   *)
(* step that leaves the run, its result, the store and the file as they    *)
(* are, and no step of the run waits for it.                               *)
C23_CleanupStartedOnceNeverAwaited ==
    /\ [](/\ Cardinality(Drops) <= 1
          /\ \A d \in Drops : \E b \in Builds : b < d /\ trace[b].ok
          /\ pipe.pc \in {"finalize", "ok", "err"} /\ Built =>
                Cardinality(Drops) = 1
          /\ Cardinality(Cleanups) <= 1
          /\ \A c \in Cleanups : \E d \in Drops : d < c)
    /\ [][Cleanups' \ Cleanups # {} =>
             /\ pipe' = pipe /\ table' = table /\ md_file' = md_file
             /\ \E ok \in BOOLEAN :
                   trace' = Append(trace, [e |-> "cleanup_done", ok |-> ok])
         ]_vars
    /\ [][pipe.pc = "finalize" /\ pipe'.pc \in {"ok", "err"} =>
             trace' = Append(trace, [e |-> "finalize",
                                     ok |-> pipe'.pc = "ok"])
         ]_vars

\* the run has ended with Ok after a remote translation while the cleanup
\* task of its session was still running
C23_Witness ==
    /\ pipe.pc = "ok"
    /\ Cardinality(Drops) = 1 /\ Cleanups = {}
    /\ \E p \in 1..Len(trace) : trace[p].e = "remote"

\* the cleanup has failed and the run has ended with Ok after it
C23_WitnessCleanupFailed ==
    /\ pipe.pc = "ok"
    /\ \E c \in Cleanups : ~trace[c].ok /\ c < Len(trace)

-----------------------------------------------------------------------------
\* the errors run_openai_request retries
Transient == {"Reqwest", "JSONDeserialize"}

(* C31: a request starts with its counter at 0; a call that fails with a   *)
(* transport or deserialization error below MAX_SEQUENTIAL_ERRORS raises   *)
(* the counter and is followed by one sleep and one more call, unless the  *)
(* backoff is exhausted, which returns the error; such a failure with the  *)
(* counter at MAX_SEQUENTIAL_ERRORS, and any other error, returns the      *)
(* InteractionError at once; nothing is called after the request has       *)
(* returned, so there are MAX_SEQUENTIAL_ERRORS retries at most.           *)
C31_RequestRetriedWithinBudget ==
    /\ [](/\ req.sequential_errors <= MAX_SEQUENTIAL_ERRORS
          /\ req.attempts <= MAX_SEQUENTIAL_ERRORS + 1
          /\ req.pc = "call" =>
                /\ req.attempts = req.sequential_errors
                /\ req.sleeps = req.sequential_errors
          /\ req.pc \in {"ok", "err", "sleep"} =>
                req.attempts = req.sleeps + 1
          /\ req.pc = "ok" => req.observed = "Ok")
    /\ [][req.pc = "call" /\ req' # req =>
             /\ req'.attempts = req.attempts + 1
             /\ req'.sleeps = req.sleeps
             /\ req'.observed = "Ok" =>
                   /\ req'.pc = "ok" /\ req'.result = "Ok"
                   /\ req'.sequential_errors = req.sequential_errors
             /\ req'.observed \in Transient =>
                   IF req.sequential_errors >= MAX_SEQUENTIAL_ERRORS
                   THEN /\ req'.pc = "err"
                        /\ req'.result = "InteractionError"
                        /\ req'.sequential_errors = req.sequential_errors
                   ELSE /\ req'.sequential_errors = req.sequential_errors + 1
                        /\ \/ req'.pc = "sleep" /\ req'.duration > 0
                           \/ /\ req'.pc = "err"
                              /\ req'.result = "InteractionError"
                              /\ NextBackoffOf(req'.backoff) = 0
             /\ req'.observed \notin Transient \cup {"Ok"} =>
                   /\ req'.pc = "err" /\ req'.result = "InteractionError"
                   /\ req'.sequential_errors = req.sequential_errors
         ]_vars
    /\ [][req.pc = "sleep" /\ req' # req =>
             /\ req'.pc = "call" /\ req'.sleeps = req.sleeps + 1
             /\ req'.attempts = req.attempts
             /\ req'.sequential_errors = req.sequential_errors
         ]_vars
    /\ [][req.pc \notin {"ok", "err"}]_vars

\* the sixth transient failure of a request was returned as the error,
\* after five sleeps
C31_Witness ==
    /\ req.pc = "err" /\ req.result = "InteractionError"
    /\ req.observed \in Transient
    /\ req.sequential_errors = MAX_SEQUENTIAL_ERRORS
    /\ req.attempts = MAX_SEQUENTIAL_ERRORS + 1
    /\ req.sleeps = MAX_SEQUENTIAL_ERRORS

\* the backoff was exhausted before the counter reached its maximum
C31_WitnessExhausted ==
    /\ req.pc = "err" /\ req.observed \in Transient
    /\ req.attempts <= MAX_SEQUENTIAL_ERRORS

-----------------------------------------------------------------------------
(* C34: the request that posts the message of a Subsection takes effect at *)
(* the service once at most, and exactly once when it has returned Ok: the *)
(* text is appended to the thread once, whatever failed and was retried.   *)
C34_MessageAppendedOnce ==
    req.kind = "messages.create" =>
       /\ req.applied <= 1
       /\ req.pc = "ok" => req.applied = 1

-----------------------------------------------------------------------------
(* C32: while translate is at Subsection k it has pushed the replies of    *)
(* the k - 1 Subsections before it, each the reply listed after the        *)
(* message of its own Subsection; the message of a Subsection after the    *)
(* first is posted only when the run of the one before was found Completed *)
(* and its one reply was listed; translate returns Ok with as many         *)
(* Subsections as the Section has; after an error nothing is posted.       *)
C32_SubsectionsInOrder ==
    /\ [](/\ rs.pc \notin {"ok", "err", "panic"} =>
                Len(rs.subsections) = rs.k - 1
          /\ rs.replied_to = [i \in 1..Len(rs.subsections) |-> i]
          /\ rs.pc = "ok" =>
                /\ rs.result = "Ok"
                /\ Len(rs.subsections) = Len(rs.section)
          /\ rs.pc \in {"backoff", "create", "retrieve", "list"} =>
                rs.my_message = rs.k)
    /\ [][rs.pc = "post" /\ rs' # rs =>
             /\ rs.k > 1 =>
                   /\ rs.my_message = rs.k - 1
                   /\ rs.observed = "Completed"
                   /\ rs.reply.shape = "one_text" /\ rs.reply.run = rs.runs
             /\ \/ rs'.pc = "backoff" /\ rs'.my_message = rs.k
                \/ /\ rs'.pc = "err" /\ rs'.my_message = rs.my_message
                   /\ rs'.subsections = rs.subsections
         ]_vars
    /\ [][rs.pc = "list" /\ rs'.subsections # rs.subsections =>
             /\ rs'.subsections = Append(rs.subsections, rs'.reply.text)
             /\ rs'.replied_to = Append(rs.replied_to, rs.k)
         ]_vars
    /\ [][rs.pc \notin {"ok", "err", "panic"}]_vars

\* a Section of two Subsections was translated, with a restart on the way
C32_Witness ==
    /\ rs.pc = "ok"
    /\ Len(rs.section) = 2
    /\ rs.subsections = <<"x", "y">>
    /\ rs.replied_to = <<1, 2>>
    /\ rs.restarts > 0

-----------------------------------------------------------------------------
(* C33: of the runs that run_with_backoff has created for a Subsection,    *)
(* one at most has not been found in a terminal status.                    *)
C33_OneRunNotTerminal == rs.open <= 1

-----------------------------------------------------------------------------
(* C36: a resumed run that has loaded the Sections of the prior output and *)
(* then returned an error has left a translated file of no fewer Sections  *)
(* than it loaded.                                                         *)
C36_ResumedAbortKeepsPriorSections ==
    /\ pipe.pc = "err" /\ pipe.continue_translation
    /\ \E p \in 1..Len(trace) : trace[p].e = "build_gen" /\ trace[p].ok
    => /\ md_file.exists
       /\ md_file.sections >= Len(pipe.already_translated)

-----------------------------------------------------------------------------
(* C35: the run that follows a run that returned Ok, on the same input     *)
(* with the same language pair and store, hands nothing to the session and *)
(* writes for every Section what the first run wrote for it.               *)
C35_SecondRunWritesTheSame ==
    pipe.pc # "idle" /\ pipe.prev.ok =>
       /\ \A p \in 1..Len(trace) : trace[p].e \notin {"translate", "remote"}
       /\ \A p \in 1..Len(trace) :
             trace[p].e = "write" /\ trace[p].ok =>
                 trace[p].section = pipe.prev.written[trace[p].sec + 1]

(* C35, the part that holds: the second run hands nothing to the session.  *)
C35_SecondRunNoRemoteCall ==
    pipe.pc # "idle" /\ pipe.prev.ok =>
       \A p \in 1..Len(trace) : trace[p].e \notin {"translate", "remote"}

====
